---- MODULE Spec2Model ----
(***************************************************************************)
(* A model of llm-caller's template execution engine: template parsing and *)
(* validation (pkg/templates), placeholder substitution (pkg/templates)    *)
(* and response extraction (pkg/llm GenericClient).                        *)
(*                                                                         *)
(* Go strings are modelled as sequences of symbols.  A symbol is either a  *)
(* punctuation character the code looks at ("{", "}", ".", "[", "]", "-",  *)
(* a digit) or a run of other characters the code never looks inside (a    *)
(* word such as "choices").  The empty string is << >>.                    *)
(*                                                                         *)
(* A decoded JSON value (Go's interface{} after json.Unmarshal) is a       *)
(* tagged record [t, v]: string, number, bool, null, map (a function from  *)
(* key strings to values) or array (a sequence of values).                 *)
(***************************************************************************)
EXTENDS Integers, Sequences, FiniteSets, TLC

VARIABLES
    pc,            \* position of the invocation in its pipeline
    rawTemplate,   \* the JSON document handed to parseTemplate
    template,      \* the *Template the pipeline holds (rewritten in place)
    loaded,        \* the template as parseTemplate returned it
    err,           \* the error the last operation returned (NoError if none)
    replacements,  \* the bindings map handed to ReplaceVariables
    httpResp,      \* the HTTP response the transport returned: status and body
    result,        \* what the operation under test returned
    varFlags,      \* the --var flags of the command line, in flag order
    stdin,         \* what is left to read on standard input
    keySources,    \* where an API key can come from: --api-key, secrets file, environment
    apiKey,        \* the key getAPIKey returned
    events,        \* the I/O operations performed so far, oldest first
    cmd,           \* the template sources and the output flag of the command line
    output,        \* what the command wrote to its output
    templateDir    \* the files of the downloaded-templates directory, by name

vars == <<pc, rawTemplate, template, loaded, err, replacements, httpResp, result,
          varFlags, stdin, keySources, apiKey, events, cmd, output, templateDir>>

----------------------------------------------------------------------------
(* JSON values *)

JStr(s) == [t |-> "string", v |-> s]
JNum(n) == [t |-> "number", v |-> n]
JBool(b) == [t |-> "bool", v |-> b]
JNull == [t |-> "null", v |-> 0]
JMap(f) == [t |-> "map", v |-> f]
JArr(s) == [t |-> "array", v |-> s]

\* The empty Go map / JSON object {}.
EmptyMap == << >>

\* A one-symbol string.
W(sym) == <<sym>>

NoError == [kind |-> "none"]
NoTemplate == [Provider |-> << >>]
NoResult == [kind |-> "none"]
NoResponse == [StatusCode |-> 0, Body |-> JNull]

\* The command line and the environment of a run that uses none of them.
NoKeySources ==
    [cli |-> << >>, file |-> [configured |-> FALSE, ok |-> FALSE, keys |-> << >>],
     env |-> << >>,
     windows |-> FALSE]

\* Nothing written yet.
NoOutput == [written |-> FALSE, text |-> << >>]
NoDir == << >>

\* A command line with the template given as inline JSON and the result
\* going to standard output.
PlainCmd ==
    [arg |-> << >>,
     json |-> [changed |-> TRUE, empty |-> FALSE, doc |-> JNull],
     base64 |-> [changed |-> FALSE, empty |-> TRUE, valid |-> TRUE, doc |-> JNull],
     userDir |-> << >>,
     defaultDir |-> [ok |-> FALSE, path |-> << >>],
     files |-> << >>,
     outputFlag |-> << >>,
     writable |-> TRUE]

NoCommandLine ==
    /\ cmd = PlainCmd
    /\ output = NoOutput
    /\ templateDir = NoDir
    /\ varFlags = << >>
    /\ keySources = NoKeySources
    /\ stdin = [ok |-> TRUE, data |-> << >>]
    /\ apiKey = << >>
    /\ events = << >>

----------------------------------------------------------------------------
(* Bounds of the model *)

\* How many times one placeholder is repeated inside one string leaf.
MaxRepeat == 2
\* How many levels of maps and arrays are wrapped around a body leaf.
MaxDepth == 2
\* The largest number of --var flags on one command line.
MaxFlags == 3
\* The largest number of --var flags of a whole run of the command.
MaxRunFlags == 2
\* The longest array in a response body.
MaxLen == 2
\* The largest single-digit array index written in a response path.
MaxIndex == 3

----------------------------------------------------------------------------
(* pkg/templates: substitution *)

\* fmt.Sprintf("{{%s}}", key)
Token(key) == <<"{", "{">> \o key \o <<"}", "}">>

\* strings.ReplaceAll for a non-empty old: leftmost, non-overlapping
\* occurrences, the inserted text is not scanned again.
RECURSIVE ReplaceAll(_, _, _)
ReplaceAll(s, old, new) ==
    IF Len(s) < Len(old) THEN s
    ELSE IF SubSeq(s, 1, Len(old)) = old
         THEN new \o ReplaceAll(SubSeq(s, Len(old) + 1, Len(s)), old, new)
         ELSE <<Head(s)>> \o ReplaceAll(Tail(s), old, new)

\* The orders in which `for key, value := range m` may visit the keys of a
\* Go map: the language leaves the order unspecified, so every enumeration
\* of the key set is a possible one, anew at every range statement.
RangeOrders(keys) ==
    {o \in [1..Cardinality(keys) -> keys] :
        \A i, j \in 1..Cardinality(keys) : i # j => o[i] # o[j]}

\* The body of replaceVariablesInString's loop run over the keys in `order`.
RECURSIVE ReplaceInOrder(_, _, _)
ReplaceInOrder(content, replacements_, order) ==
    IF order = << >> THEN content
    ELSE ReplaceInOrder(
            ReplaceAll(content, Token(Head(order)), replacements_[Head(order)]),
            replacements_, Tail(order))

\* replaceVariablesInString: the set of strings it may return.
replaceVariablesInString(content, replacements_) ==
    {ReplaceInOrder(content, replacements_, o) :
        o \in RangeOrders(DOMAIN replacements_)}

\* replaceVariablesInInterface: the set of values it may return.
RECURSIVE replaceVariablesInInterface(_, _)
\* A variant whose default branch loses the value instead of returning it.
replaceVariablesInInterface_LosesScalars(data, replacements_) ==
    CASE data.t = "string" ->
            {JStr(s) : s \in replaceVariablesInString(data.v, replacements_)}
      [] data.t = "map" ->
            LET R == [k \in DOMAIN data.v |->
                        replaceVariablesInInterface(data.v[k], replacements_)]
            IN {JMap(f) : f \in {g \in [DOMAIN data.v -> UNION {R[k] : k \in DOMAIN data.v}] :
                                    \A k \in DOMAIN data.v : g[k] \in R[k]}}
      [] data.t = "array" ->
            LET R == [i \in 1..Len(data.v) |->
                        replaceVariablesInInterface(data.v[i], replacements_)]
            IN {JArr(f) : f \in {g \in [1..Len(data.v) -> UNION {R[i] : i \in 1..Len(data.v)}] :
                                    \A i \in 1..Len(data.v) : g[i] \in R[i]}}
      [] OTHER -> {JNull}

replaceVariablesInInterface(data, replacements_) ==
    CASE data.t = "string" ->
            {JStr(s) : s \in replaceVariablesInString(data.v, replacements_)}
      [] data.t = "map" ->
            LET R == [k \in DOMAIN data.v |->
                        replaceVariablesInInterface(data.v[k], replacements_)]
            IN {JMap(f) : f \in {g \in [DOMAIN data.v -> UNION {R[k] : k \in DOMAIN data.v}] :
                                    \A k \in DOMAIN data.v : g[k] \in R[k]}}
      [] data.t = "array" ->
            LET R == [i \in 1..Len(data.v) |->
                        replaceVariablesInInterface(data.v[i], replacements_)]
            IN {JArr(f) : f \in {g \in [1..Len(data.v) -> UNION {R[i] : i \in 1..Len(data.v)}] :
                                    \A i \in 1..Len(data.v) : g[i] \in R[i]}}
      [] OTHER -> {data}

\* Template.ReplaceVariables: the set of templates it may leave behind.  A
\* nil Body (typed nil map) takes the map case and comes back as an empty map.
ReplaceVariables(t, replacements_) ==
    LET H == [k \in DOMAIN t.Request.Headers |->
                replaceVariablesInString(t.Request.Headers[k], replacements_)]
        headers == {g \in [DOMAIN t.Request.Headers ->
                            UNION {H[k] : k \in DOMAIN t.Request.Headers}] :
                        \A k \in DOMAIN t.Request.Headers : g[k] \in H[k]}
        urls == replaceVariablesInString(t.Request.URL, replacements_)
        bodies == IF t.Request.Body.t = "null" THEN {JMap(EmptyMap)}
                  ELSE replaceVariablesInInterface(t.Request.Body, replacements_)
    IN {[t EXCEPT !.Request.Headers = h, !.Request.URL = u, !.Request.Body = b] :
            h \in headers, u \in urls, b \in bodies}

----------------------------------------------------------------------------
(* Inputs of the substitution specification *)

VarNames == {W("a"), W("b")}
UnboundName == W("c")

RECURSIVE Repeat(_, _)
Repeat(s, n) == IF n = 0 THEN << >> ELSE s \o W("-") \o Repeat(s, n - 1)

Leaves ==
    {<< >>, W("x"), Token(UnboundName) \o Token(W("a")),
     Token(W("a")) \o Token(W("b")),
     <<"{", "{">> \o Token(W("a")) \o <<"}", "}">>}
    \cup {Repeat(Token(W("a")), n) : n \in 1..MaxRepeat}

Values == {W("x"), << >>, W("b"), Token(W("b"))}

Bindings == UNION {[D -> Values] : D \in SUBSET VarNames}

\* leaf wrapped in d alternating levels of array and map
RECURSIVE Nest(_, _)
Nest(leaf, d) ==
    IF d = 0 THEN JStr(leaf)
    ELSE IF d % 2 = 1 THEN JArr(<<JBool(TRUE), Nest(leaf, d - 1), JNull>>)
         ELSE JMap(W("k") :> Nest(leaf, d - 1) @@ W("n") :> JNum(7))

DefaultPath == <<"choices", "[", "0", "]", ".", "message", ".", "content">>

SubstTemplates ==
    {[Provider |-> W("p"),
      Request |-> [URL |-> W("u") \o l1, Method |-> W("POST"),
                   Headers |-> IF auth
                               THEN W("Authorization") :> (W("Bearer ") \o l2)
                               ELSE EmptyMap,
                   Body |-> JMap(W("m") :> JStr(l2) @@ W("n") :> JNum(7)
                                 @@ W("deep") :> Nest(l1, d))],
      Response |-> [Path |-> DefaultPath, AutoDetect |-> TRUE,
                    ResponseFieldName |-> << >>]] :
        l1 \in Leaves, l2 \in Leaves, d \in 0..MaxDepth,
        auth \in BOOLEAN}

SubstInit ==
    /\ pc = "loaded"
    /\ template \in SubstTemplates
    /\ loaded = template
    /\ replacements \in Bindings
    /\ rawTemplate = JNull
    /\ err = NoError
    /\ httpResp = NoResponse
    /\ result = NoResult
    /\ NoCommandLine

\* runCall: if len(replaceVars) > 0 { template.ReplaceVariables(replaceVars) }
DoReplaceVariables ==
    /\ pc = "loaded"
    /\ replacements # EmptyMap
    /\ \E t \in ReplaceVariables(template, replacements) : template' = t
    /\ pc' = "substituted"
    /\ UNCHANGED <<rawTemplate, loaded, err, replacements, httpResp, result>>
    /\ UNCHANGED <<varFlags, stdin, keySources, apiKey, events, cmd, output, templateDir>>

SubstNext == DoReplaceVariables

SubstSpec == SubstInit /\ [][SubstNext]_vars

----------------------------------------------------------------------------
(* Reading two templates side by side *)

\* Same tree up to the contents of string leaves: same tags, same map keys,
\* same array lengths, equal numbers, booleans and nulls.
RECURSIVE SameShape(_, _)
SameShape(x, y) ==
    /\ x.t = y.t
    /\ CASE x.t = "map" ->
                /\ DOMAIN x.v = DOMAIN y.v
                /\ \A k \in DOMAIN x.v : SameShape(x.v[k], y.v[k])
         [] x.t = "array" ->
                /\ Len(x.v) = Len(y.v)
                /\ \A i \in 1..Len(x.v) : SameShape(x.v[i], y.v[i])
         [] x.t = "string" -> TRUE
         [] OTHER -> x = y

\* The pairs <<leaf of x, leaf of y at the same place>> over the string
\* leaves of two trees of the same shape.
RECURSIVE LeafPairs(_, _)
LeafPairs(x, y) ==
    CASE x.t = "string" -> {<<x.v, y.v>>}
      [] x.t = "map" -> UNION {LeafPairs(x.v[k], y.v[k]) : k \in DOMAIN x.v}
      [] x.t = "array" -> UNION {LeafPairs(x.v[i], y.v[i]) : i \in 1..Len(x.v)}
      [] OTHER -> {}

\* Everything of a template but its string leaves is the same in both.
SameTemplateShape(x, y) ==
    /\ x.Provider = y.Provider
    /\ x.Response = y.Response
    /\ x.Request.Method = y.Request.Method
    /\ DOMAIN x.Request.Headers = DOMAIN y.Request.Headers
    /\ SameShape(x.Request.Body, y.Request.Body)

\* The string leaves of two templates of the same shape, pairwise: the url,
\* every header value, every string leaf of the body.
TemplateLeafPairs(x, y) ==
    {<<x.Request.URL, y.Request.URL>>}
    \cup {<<x.Request.Headers[k], y.Request.Headers[k]>> : k \in DOMAIN x.Request.Headers}
    \cup LeafPairs(x.Request.Body, y.Request.Body)

IsPrefix(p, s) == Len(p) <= Len(s) /\ SubSeq(s, 1, Len(p)) = p

\* Number of (possibly overlapping) places where tok occurs in s.
Occurrences(tok, s) ==
    Cardinality({i \in 1..Len(s) : IsPrefix(tok, SubSeq(s, i, Len(s)))})

\* The text of s before its first brace.
RECURSIVE PlainPrefix(_)
PlainPrefix(s) ==
    IF s = << >> \/ Head(s) \in {"{", "}"} THEN << >>
    ELSE <<Head(s)>> \o PlainPrefix(Tail(s))

\* What the specification describes: one pass over s from left to right in
\* which every {{name}} with name bound in b gives way to b[name], and
\* inserted text is never looked at again.
RECURSIVE SinglePass(_, _)
SinglePass(s, b) ==
    IF s = << >> THEN << >>
    ELSE IF \E k \in DOMAIN b : IsPrefix(Token(k), s)
         THEN LET k == CHOOSE n \in DOMAIN b : IsPrefix(Token(n), s)
              IN b[k] \o SinglePass(SubSeq(s, Len(Token(k)) + 1, Len(s)), b)
         ELSE <<Head(s)>> \o SinglePass(Tail(s), b)

----------------------------------------------------------------------------
(* Claims about substitution *)

\* C1: for every template and bindings, substitution leaves in the url, in
\* every header value and in every string leaf of the body (at any depth)
\* the leaf with each occurrence of {{name}}, name bound, replaced by
\* bindings[name], N occurrences all alike, and keeps every other value.
C1_EveryOccurrenceReplaced ==
    pc = "substituted" =>
        /\ SameTemplateShape(loaded, template)
        /\ \A p \in TemplateLeafPairs(loaded, template) :
                p[2] = SinglePass(p[1], replacements)

C3_OrderIndependent ==
    pc = "substituted" =>
        \A t \in ReplaceVariables(loaded, replacements) : t = template

----------------------------------------------------------------------------
(* pkg/templates: parsing and validation *)

\* What a lookup gives for a key the JSON object does not have.
Absent == [t |-> "absent", v |-> 0]

\* Text that is not JSON at all.
NotJSON == [t |-> "invalid", v |-> 0]

Member(obj, key) ==
    IF obj.t = "map" /\ key \in DOMAIN obj.v THEN obj.v[key] ELSE Absent

MalformedTemplate == [kind |-> "MalformedTemplate"]
InvalidTemplate(field) == [kind |-> "InvalidTemplate", field |-> field]

\* encoding/json storing a JSON value into a Go string field: a missing key
\* or null leaves the zero value "", any other non-string is a type error.
DecodeString(j) ==
    CASE j.t = "string" -> [ok |-> TRUE, val |-> j.v]
      [] j.t \in {"absent", "null"} -> [ok |-> TRUE, val |-> << >>]
      [] OTHER -> [ok |-> FALSE, val |-> << >>]

\* ... into Headers map[string]string: nil (no headers) unless an object
\* whose values are all strings is given.
DecodeHeaders(j) ==
    CASE j.t = "map" /\ (\A k \in DOMAIN j.v : j.v[k].t \in {"string", "null"}) ->
            [ok |-> TRUE,
             val |-> [k \in DOMAIN j.v |-> IF j.v[k].t = "string" THEN j.v[k].v ELSE << >>]]
      [] j.t \in {"absent", "null"} -> [ok |-> TRUE, val |-> EmptyMap]
      [] OTHER -> [ok |-> FALSE, val |-> EmptyMap]

\* ... into Body map[string]interface{}: nil (JNull here) for a missing key
\* or null, the map for an object, a type error for anything else.
DecodeBody(j) ==
    CASE j.t = "map" -> [ok |-> TRUE, val |-> j]
      [] j.t \in {"absent", "null"} -> [ok |-> TRUE, val |-> JNull]
      [] OTHER -> [ok |-> FALSE, val |-> JNull]

\* A struct field (request, response) accepts an object, a missing key or null.
StructOK(j) == j.t \in {"map", "absent", "null"}

\* A variant in which a template that does not write auto_detect has it on.
DecodeAutoDetect_DefaultTrue(j) ==
    CASE j.t = "bool" -> [ok |-> TRUE, val |-> j.v]
      [] j.t \in {"absent", "null"} -> [ok |-> TRUE, val |-> TRUE]
      [] OTHER -> [ok |-> FALSE, val |-> FALSE]

\* ... into the boolean field the call reads as Response.AutoDetect: a
\* missing key or null leaves Go's zero value, false; parseTemplate sets a
\* default for the method and the path and for nothing else.
DecodeAutoDetect(j) ==
    CASE j.t = "bool" -> [ok |-> TRUE, val |-> j.v]
      [] j.t \in {"absent", "null"} -> [ok |-> TRUE, val |-> FALSE]
      [] OTHER -> [ok |-> FALSE, val |-> FALSE]

\* json.Unmarshal(data, &template)
Unmarshal(data) ==
    LET req == Member(data, W("request"))
        rsp == Member(data, W("response"))
        provider == DecodeString(Member(data, W("provider")))
        url == DecodeString(Member(req, W("url")))
        method == DecodeString(Member(req, W("method")))
        headers == DecodeHeaders(Member(req, W("headers")))
        body == DecodeBody(Member(req, W("body")))
        path == DecodeString(Member(rsp, W("path")))
        autoDetect == DecodeAutoDetect(Member(rsp, W("auto_detect")))
    IN [ok |-> /\ data.t \in {"map", "null"}
               /\ StructOK(req) /\ StructOK(rsp)
               /\ provider.ok /\ url.ok /\ method.ok /\ headers.ok /\ body.ok /\ path.ok
               /\ autoDetect.ok,
        val |-> [Provider |-> provider.val,
                 Request |-> [URL |-> url.val, Method |-> method.val,
                              Headers |-> headers.val, Body |-> body.val],
                 Response |-> [Path |-> path.val, AutoDetect |-> autoDetect.val,
                               ResponseFieldName |-> << >>]]]

\* A variant that looks at the url before the provider.
Validate_UrlFirst(t) ==
    IF t.Request.URL = << >> THEN InvalidTemplate("request.url")
    ELSE IF t.Provider = << >> THEN InvalidTemplate("provider")
    ELSE IF t.Request.Body.t = "null" THEN InvalidTemplate("request.body")
    ELSE NoError

\* A variant that forgets to look at the url.
Validate_NoUrlCheck(t) ==
    IF t.Provider = << >> THEN InvalidTemplate("provider")
    ELSE IF t.Request.Body.t = "null" THEN InvalidTemplate("request.body")
    ELSE NoError

\* Template.Validate
Validate(t) ==
    IF t.Provider = << >> THEN InvalidTemplate("provider")
    ELSE IF t.Request.URL = << >> THEN InvalidTemplate("request.url")
    ELSE IF t.Request.Body.t = "null" THEN InvalidTemplate("request.body")
    ELSE NoError

\* A variant that overwrites the method and the path a template gives.
WithDefaults_Overwrites(t) ==
    [t EXCEPT !.Request.Method = W("POST"), !.Response.Path = DefaultPath]

\* The defaults parseTemplate sets before it validates.
WithDefaults(t) ==
    [t EXCEPT !.Request.Method = IF @ = << >> THEN W("POST") ELSE @,
              !.Response.Path = IF @ = << >> THEN DefaultPath ELSE @]

\* parseTemplate: the template (NoTemplate for Go's nil) and the error.
parseTemplate(data) ==
    LET u == Unmarshal(data)
        t == WithDefaults(u.val)
    IN IF ~u.ok THEN [tmpl |-> NoTemplate, err |-> MalformedTemplate]
       ELSE IF Validate(t) # NoError THEN [tmpl |-> NoTemplate, err |-> Validate(t)]
       ELSE [tmpl |-> t, err |-> NoError]

----------------------------------------------------------------------------
(* Inputs of the parsing specification *)

Field(key, j) == IF j = Absent THEN EmptyMap ELSE key :> j

RawTemplates ==
    {NotJSON, JArr(<< >>)} \cup
    {JMap(Field(W("provider"), pr)
          @@ Field(W("request"),
                   IF hasRequest
                   THEN JMap(Field(W("url"), url) @@ Field(W("method"), me)
                             @@ Field(W("body"), bo))
                   ELSE Absent)
          @@ Field(W("response"), IF pa = Absent THEN Absent ELSE JMap(W("path") :> pa))) :
        pr \in {Absent, JNull, JStr(<< >>), JStr(W("p")), JNum(1)},
        url \in {Absent, JStr(<< >>), JStr(W("u")), JStr(Token(W("a")))},
        me \in {Absent, JStr(<< >>), JStr(W("GET"))},
        bo \in {Absent, JNull, JMap(EmptyMap), JArr(<< >>), JStr(W("x")),
                JMap(W("m") :> JStr(Token(W("a"))))},
        pa \in {Absent, JStr(<< >>), JStr(W("content"))},
        hasRequest \in BOOLEAN}

ParseInit ==
    /\ pc = "start"
    /\ rawTemplate \in RawTemplates
    /\ template = NoTemplate
    /\ loaded = NoTemplate
    /\ err = NoError
    /\ replacements \in {EmptyMap, W("a") :> << >>, W("a") :> W("x")}
    /\ httpResp = NoResponse
    /\ result = NoResult
    /\ NoCommandLine

\* runCall loading the template: on an error it returns, and nothing runs
\* after it.
DoParseTemplate ==
    /\ pc = "start"
    /\ LET r == parseTemplate(rawTemplate)
       IN /\ template' = r.tmpl
          /\ loaded' = r.tmpl
          /\ err' = r.err
          /\ pc' = IF r.err = NoError THEN "loaded" ELSE "failed"
    /\ UNCHANGED <<rawTemplate, replacements, httpResp, result>>
    /\ UNCHANGED <<varFlags, stdin, keySources, apiKey, events, cmd, output, templateDir>>

ParseNext == DoParseTemplate \/ DoReplaceVariables

ParseSpec == ParseInit /\ [][ParseNext]_vars

----------------------------------------------------------------------------
(* Claims about parsing and validation *)

\* Reading the JSON document itself: a string field is missing when the key
\* is absent, null or the empty string; the body when it is absent or null.
RawRequest == Member(rawTemplate, W("request"))
RawMissingString(j) == j.t \in {"absent", "null"} \/ j = JStr(<< >>)
RawProviderMissing == RawMissingString(Member(rawTemplate, W("provider")))
RawUrlMissing == RawMissingString(Member(RawRequest, W("url")))
RawBodyMissing == Member(RawRequest, W("body")).t \in {"absent", "null"}

Rejected(e) == pc = "failed" /\ err = e /\ template = NoTemplate

\* C9: a template (a document json.Unmarshal accepts) that lacks required
\* fields is rejected with InvalidTemplate naming the first missing one in
\* the order provider, request.url, request.body; one that lacks none is
\* accepted.
C9_FirstMissingFieldNamed ==
    (pc # "start" /\ err # MalformedTemplate) =>
        IF RawProviderMissing THEN Rejected(InvalidTemplate("provider"))
        ELSE IF RawUrlMissing THEN Rejected(InvalidTemplate("request.url"))
        ELSE IF RawBodyMissing THEN Rejected(InvalidTemplate("request.body"))
        ELSE err = NoError /\ pc \in {"loaded", "substituted"}

\* A template with provider, url, method and response path but no body was
\* rejected naming request.body.
C9_Witness ==
    /\ Rejected(InvalidTemplate("request.body"))
    /\ ~RawProviderMissing /\ ~RawUrlMissing
    /\ Member(RawRequest, W("method")) = JStr(W("GET"))
    /\ Member(rawTemplate, W("response")) # Absent

RawMethod == Member(RawRequest, W("method"))
RawPath == Member(Member(rawTemplate, W("response")), W("path"))

C11_DefaultsApplied ==
    pc \in {"loaded", "substituted"} =>
        /\ loaded.Request.Method =
              IF RawMissingString(RawMethod) THEN W("POST") ELSE RawMethod.v
        /\ loaded.Response.Path =
              IF RawMissingString(RawPath) THEN DefaultPath ELSE RawPath.v

\* An accepted template that gave no method but did give a path.
C11_Witness ==
    /\ pc = "loaded"
    /\ RawMethod = Absent
    /\ loaded.Request.Method = W("POST")
    /\ RawPath = JStr(W("content"))
    /\ loaded.Response.Path = W("content")

----------------------------------------------------------------------------
(* pkg/llm: path navigation *)

\* Results of an extraction: a string, an error value, or a run-time panic
\* that ends the process.
Value(s) == [kind |-> "value", val |-> s]
Failure(e) == [kind |-> "error", err |-> e]
Panic == [kind |-> "panic"]

PathRequired == [kind |-> "PathRequired"]
ResponseParseError == [kind |-> "ResponseParseError"]
InvalidArrayIndex(indexStr) == [kind |-> "InvalidArrayIndex", indexStr |-> indexStr]
FieldNotFound(field, pathSoFar) ==
    [kind |-> "FieldNotFound", field |-> field, path |-> pathSoFar]
IndexOutOfBounds(index, length, pathSoFar) ==
    [kind |-> "IndexOutOfBounds", index |-> index, length |-> length, path |-> pathSoFar]
NotAnArray(got, field, pathSoFar) ==
    [kind |-> "NotAnArray", got |-> got, field |-> field, path |-> pathSoFar]

\* strings.Contains / strings.Index for a one-symbol needle; Index counts
\* from 0 and is -1 when the symbol does not occur.
Contains(s, sym) == \E i \in 1..Len(s) : s[i] = sym
Index(s, sym) ==
    IF Contains(s, sym)
    THEN (CHOOSE i \in 1..Len(s) : s[i] = sym /\ \A j \in 1..(i - 1) : s[j] # sym) - 1
    ELSE -1

\* strings.Split(s, "."): always at least one part.
RECURSIVE Split(_, _)
Split(s, sep) ==
    IF ~Contains(s, sep) THEN <<s>>
    ELSE <<SubSeq(s, 1, Index(s, sep))>> \o Split(SubSeq(s, Index(s, sep) + 2, Len(s)), sep)

\* strings.Join(parts, ".")
RECURSIVE Join(_, _)
Join(parts, sep) ==
    IF parts = << >> THEN << >>
    ELSE IF Len(parts) = 1 THEN parts[1]
    ELSE parts[1] \o <<sep>> \o Join(Tail(parts), sep)

DigitValue(sym) ==
    CASE sym = "0" -> 0 [] sym = "1" -> 1 [] sym = "2" -> 2 [] sym = "3" -> 3
      [] sym = "4" -> 4 [] sym = "5" -> 5 [] sym = "6" -> 6 [] sym = "7" -> 7
      [] sym = "8" -> 8 [] sym = "9" -> 9
DigitSymbols == {"0", "1", "2", "3", "4", "5", "6", "7", "8", "9"}

RECURSIVE DigitsValue(_, _)
DigitsValue(s, acc) ==
    IF s = << >> THEN acc ELSE DigitsValue(Tail(s), acc * 10 + DigitValue(Head(s)))

\* strconv.Atoi: an optional sign and at least one decimal digit.
Atoi(s) ==
    LET digits == IF s # << >> /\ Head(s) \in {"+", "-"} THEN Tail(s) ELSE s
    IN IF digits = << >> \/ \E i \in 1..Len(digits) : digits[i] \notin DigitSymbols
       THEN [ok |-> FALSE, val |-> 0]
       ELSE [ok |-> TRUE,
             val |-> IF Head(s) = "-" THEN 0 - DigitsValue(digits, 0)
                     ELSE DigitsValue(digits, 0)]

\* Decimal digits of a natural number.
RECURSIVE Itoa(_)
Itoa(n) ==
    LET d == <<"0", "1", "2", "3", "4", "5", "6", "7", "8", "9">>[(n % 10) + 1]
    IN IF n < 10 THEN <<d>> ELSE Itoa(n \div 10) \o <<d>>

\* fmt.Sprintf("%v", current) for a decoded JSON value that is not a string.
\* Numbers are float64: whole numbers below 10^6 print as their digits (the
\* model holds no others).  The contents of maps and slices are elided.
Sprintv(j) ==
    CASE j.t = "number" -> Itoa(j.v)
      [] j.t = "bool" -> IF j.v THEN W("true") ELSE W("false")
      [] j.t = "null" -> W("<nil>")
      [] j.t = "map" -> W("map[...]")
      [] j.t = "array" -> W("[...]")
      [] j.t = "string" -> j.v

\* fmt's %T of a decoded JSON value.
GoType(j) ==
    CASE j.t = "number" -> "float64"
      [] j.t = "bool" -> "bool"
      [] j.t = "null" -> "<nil>"
      [] j.t = "map" -> "map[string]interface {}"
      [] j.t = "array" -> "[]interface {}"
      [] j.t = "string" -> "string"

\* navigateToField: v[field] for a map, which is nil (JNull) for a missing
\* key as for a null member; nil for everything that is no map (decoded
\* JSON holds no structs for the reflection branch to find).
navigateToField(data, field) ==
    IF data.t = "map" /\ field \in DOMAIN data.v THEN data.v[field] ELSE JNull

\* json.Unmarshal(body, &response) with response a map[string]interface{}:
\* an object decodes to its map, null to the nil map, all else is an error.
UnmarshalResponse(body) ==
    CASE body.t = "map" -> [ok |-> TRUE, val |-> body]
      [] body.t = "null" -> [ok |-> TRUE, val |-> JMap(EmptyMap)]
      [] OTHER -> [ok |-> FALSE, val |-> JMap(EmptyMap)]

\* One round of extractResponseContentByPath's loop, for parts[i], and the
\* rounds after it.
RECURSIVE NavigateParts(_, _, _)
NavigateParts(parts, i, current) ==
    IF i > Len(parts)
    THEN IF current.t = "string" THEN Value(current.v) ELSE Value(Sprintv(current))
    ELSE
    LET part == parts[i]
        pathSoFar == Join(SubSeq(parts, 1, i), ".")
    IN IF Contains(part, "[") /\ Contains(part, "]")
       THEN LET lb == Index(part, "[")
                rb == Index(part, "]")
                arrayName == SubSeq(part, 1, lb)
                indexStr == SubSeq(part, lb + 2, rb)
                index == Atoi(indexStr)
                arr == IF arrayName # << >> THEN navigateToField(current, arrayName)
                       ELSE current
            IN IF lb + 1 > rb THEN Panic  \* slice bounds out of range
               ELSE IF ~index.ok THEN Failure(InvalidArrayIndex(indexStr))
               ELSE IF arrayName # << >> /\ arr.t = "null"
                    THEN Failure(FieldNotFound(arrayName, pathSoFar))
               ELSE IF arr.t # "array"
                    THEN Failure(NotAnArray(GoType(arr), arrayName, pathSoFar))
               ELSE IF index.val >= Len(arr.v)
                    THEN Failure(IndexOutOfBounds(index.val, Len(arr.v), pathSoFar))
               ELSE IF index.val < 0 THEN Panic  \* index out of range
               ELSE NavigateParts(parts, i + 1, arr.v[index.val + 1])
       ELSE LET next == navigateToField(current, part)
            IN IF next.t = "null"
               THEN Failure(FieldNotFound(part, pathSoFar))
               ELSE NavigateParts(parts, i + 1, next)

\* GenericClient.extractResponseContentByPath
extractResponseContentByPath(body, responsePath) ==
    IF responsePath = << >> THEN Failure(PathRequired)
    ELSE IF ~UnmarshalResponse(body).ok THEN Failure(ResponseParseError)
    ELSE NavigateParts(Split(responsePath, "."), 1, UnmarshalResponse(body).val)

----------------------------------------------------------------------------
(* pkg/llm: auto-detection and Call *)

IsString(j) == j.t = "string"

\* A variant that probes choices before the top-level response field.
detectResponseFormat_ChoicesFirst(response) ==
    LET choices == Member(response, W("choices"))
        choice == IF choices.t = "array" /\ Len(choices.v) > 0 /\ choices.v[1].t = "map"
                  THEN choices.v[1] ELSE Absent
        generations == Member(response, W("generations"))
        generation == IF generations.t = "array" /\ Len(generations.v) > 0
                         /\ generations.v[1].t = "map"
                      THEN generations.v[1] ELSE Absent
        content == Member(response, W("content"))
        block == IF content.t = "array" /\ Len(content.v) > 0 /\ content.v[1].t = "map"
                 THEN content.v[1] ELSE Absent
    IN IF IsString(Member(Member(choice, W("message")), W("content")))
       THEN [ok |-> TRUE, val |-> Member(Member(choice, W("message")), W("content")).v]
       ELSE IF IsString(Member(choice, W("text")))
       THEN [ok |-> TRUE, val |-> Member(choice, W("text")).v]
       ELSE IF IsString(Member(response, W("response")))
       THEN [ok |-> TRUE, val |-> Member(response, W("response")).v]
       ELSE IF IsString(content)
       THEN [ok |-> TRUE, val |-> content.v]
       ELSE IF IsString(Member(response, W("completion")))
       THEN [ok |-> TRUE, val |-> Member(response, W("completion")).v]
       ELSE IF IsString(Member(generation, W("text")))
       THEN [ok |-> TRUE, val |-> Member(generation, W("text")).v]
       ELSE IF IsString(Member(block, W("text")))
       THEN [ok |-> TRUE, val |-> Member(block, W("text")).v]
       ELSE [ok |-> FALSE, val |-> << >>]

\* detectResponseFormat: the probes in the order of the code.
detectResponseFormat(response) ==
    LET choices == Member(response, W("choices"))
        choice == IF choices.t = "array" /\ Len(choices.v) > 0 /\ choices.v[1].t = "map"
                  THEN choices.v[1] ELSE Absent
        generations == Member(response, W("generations"))
        generation == IF generations.t = "array" /\ Len(generations.v) > 0
                         /\ generations.v[1].t = "map"
                      THEN generations.v[1] ELSE Absent
        content == Member(response, W("content"))
        block == IF content.t = "array" /\ Len(content.v) > 0 /\ content.v[1].t = "map"
                 THEN content.v[1] ELSE Absent
    IN IF IsString(Member(response, W("response")))
       THEN [ok |-> TRUE, val |-> Member(response, W("response")).v]
       ELSE IF IsString(Member(Member(choice, W("message")), W("content")))
       THEN [ok |-> TRUE, val |-> Member(Member(choice, W("message")), W("content")).v]
       ELSE IF IsString(Member(choice, W("text")))
       THEN [ok |-> TRUE, val |-> Member(choice, W("text")).v]
       ELSE IF IsString(content)
       THEN [ok |-> TRUE, val |-> content.v]
       ELSE IF IsString(Member(response, W("completion")))
       THEN [ok |-> TRUE, val |-> Member(response, W("completion")).v]
       ELSE IF IsString(Member(generation, W("text")))
       THEN [ok |-> TRUE, val |-> Member(generation, W("text")).v]
       ELSE IF IsString(Member(block, W("text")))
       THEN [ok |-> TRUE, val |-> Member(block, W("text")).v]
       ELSE [ok |-> FALSE, val |-> << >>]

AutoDetectFailed == [kind |-> "AutoDetectFailed"]

\* A variant that tries the preferred field only after the general probes.
autoDetectResponseContent_HintLast(body, preferredResponseField) ==
    LET response == UnmarshalResponse(body)
        hinted == Member(response.val, preferredResponseField)
        detected == detectResponseFormat(response.val)
    IN IF ~response.ok THEN Failure(ResponseParseError)
       ELSE IF detected.ok THEN Value(detected.val)
       ELSE IF preferredResponseField # << >> /\ IsString(hinted) THEN Value(hinted.v)
       ELSE Failure(AutoDetectFailed)

\* GenericClient.autoDetectResponseContent
autoDetectResponseContent(body, preferredResponseField) ==
    LET response == UnmarshalResponse(body)
        hinted == Member(response.val, preferredResponseField)
        detected == detectResponseFormat(response.val)
    IN IF ~response.ok THEN Failure(ResponseParseError)
       ELSE IF preferredResponseField # << >> /\ IsString(hinted) THEN Value(hinted.v)
       ELSE IF detected.ok THEN Value(detected.val)
       ELSE Failure(AutoDetectFailed)

\* http.StatusOK
StatusOK == 200

APIError(status, body) == [kind |-> "APIError", status |-> status, body |-> body]

\* An entry of the log of I/O operations.
Event(op, arg) == [op |-> op, arg |-> arg]

\* A variant that takes every 2xx status for a success.
CallResponse_Any2xx(t, resp) ==
    IF resp.StatusCode \div 100 # 2 THEN Failure(APIError(resp.StatusCode, resp.Body))
    ELSE IF t.Response.AutoDetect
    THEN LET auto == autoDetectResponseContent(resp.Body, t.Response.ResponseFieldName)
         IN IF auto.kind = "error"
            THEN extractResponseContentByPath(resp.Body, t.Response.Path)
            ELSE auto
    ELSE extractResponseContentByPath(resp.Body, t.Response.Path)

\* A variant that returns the auto-detection error instead of falling back.
CallResponse_NoFallback(t, resp) ==
    IF resp.StatusCode # StatusOK THEN Failure(APIError(resp.StatusCode, resp.Body))
    ELSE IF t.Response.AutoDetect
    THEN autoDetectResponseContent(resp.Body, t.Response.ResponseFieldName)
    ELSE extractResponseContentByPath(resp.Body, t.Response.Path)

\* GenericClient.Call from the response on: the status check, then the
\* extraction.
CallResponse(t, resp) ==
    IF resp.StatusCode # StatusOK THEN Failure(APIError(resp.StatusCode, resp.Body))
    ELSE IF t.Response.AutoDetect
    THEN LET auto == autoDetectResponseContent(resp.Body, t.Response.ResponseFieldName)
         IN IF auto.kind = "error"
            THEN extractResponseContentByPath(resp.Body, t.Response.Path)
            ELSE auto
    ELSE extractResponseContentByPath(resp.Body, t.Response.Path)

\* The extraction operations Call runs on the body it read, in order.
CallEvents(t, resp) ==
    IF resp.StatusCode # StatusOK THEN << >>
    ELSE IF t.Response.AutoDetect
    THEN IF autoDetectResponseContent(resp.Body, t.Response.ResponseFieldName).kind = "error"
         THEN <<Event("autoDetect", << >>), Event("byPath", << >>)>>
         ELSE <<Event("autoDetect", << >>)>>
    ELSE <<Event("byPath", << >>)>>

----------------------------------------------------------------------------
(* Inputs of the extraction specifications *)

\* A response path written segment by segment: a field name, with an array
\* index or without.
Seg(name) == [name |-> W(name), hasIdx |-> FALSE, idx |-> 0]
SegAt(name, i) == [name |-> W(name), hasIdx |-> TRUE, idx |-> i]

SegString(seg) ==
    IF seg.hasIdx THEN seg.name \o W("[") \o Itoa(seg.idx) \o W("]") ELSE seg.name

RECURSIVE PathString(_)
PathString(segs) ==
    IF segs = << >> THEN << >>
    ELSE IF Len(segs) = 1 THEN SegString(segs[1])
    ELSE SegString(segs[1]) \o W(".") \o PathString(Tail(segs))

StructuredPaths ==
    UNION {{<<SegAt("choices", i), Seg("message"), Seg("content")>>,
            <<SegAt("choices", i), Seg("text")>>,
            <<SegAt("choices", i), Seg("missing"), Seg("content")>>,
            <<SegAt("choices", i)>>,
            <<SegAt("arr", i)>>,
            <<SegAt("arr", i), Seg("x")>>} : i \in 0..MaxIndex}
    \cup {<<Seg("choices")>>, <<Seg("content")>>, <<Seg("usage")>>,
          <<Seg("usage"), Seg("n")>>, <<Seg("usage"), Seg("b")>>,
          <<Seg("usage"), Seg("z")>>, <<Seg("usage"), Seg("s")>>,
          <<Seg("usage"), Seg("z"), Seg("x")>>, <<Seg("usage"), Seg("s"), Seg("x")>>,
          <<SegAt("usage", 0)>>, <<Seg("usage"), SegAt("z", 0)>>,
          <<Seg("usage"), SegAt("n", 0), Seg("x")>>,
          <<Seg("missing")>>, <<SegAt("missing", 0)>>, <<Seg("missing"), Seg("x")>>,
          <<SegAt("arr", 10)>>, <<Seg("content"), Seg("x"), SegAt("choices", 0)>>}

\* Paths that are not of that form.
RawPaths ==
    {<< >>, <<"arr", "[", "x", "]">>, <<"arr", "[", "]">>, <<"arr", "[", "-", "1", "]">>,
     <<"arr", "]", "0", "[">>, <<"[", "0", "]">>}

Choice(j) ==
    JMap(W("message") :> JMap(W("content") :> JStr(<<"hi">> \o Itoa(j)))
         @@ W("text") :> JStr(<<"t">> \o Itoa(j)))

ArrElems == <<JNull, JNum(7), JStr(W("s")), JBool(FALSE)>>

Usage ==
    JMap(W("n") :> JNum(42) @@ W("b") :> JBool(TRUE) @@ W("z") :> JNull
         @@ W("s") :> JStr(W("str")))

PathBodies ==
    {NotJSON, JNull, JArr(<< >>)} \cup
    {JMap(Field(W("choices"), ch)
          @@ W("arr") :> JArr([j \in 1..k |-> ArrElems[((j + r) % 4) + 1]])
          @@ W("usage") :> Usage @@ W("content") :> JStr(W("c"))) :
        ch \in {Absent, JNull, JStr(W("s")), JArr(<<JNull>>),
                JArr(<<JMap(W("message") :> JMap(W("content") :> JNull)
                            @@ W("text") :> JNum(3))>>)}
               \cup {JArr([j \in 1..n |-> Choice(j - 1)]) : n \in 0..MaxLen},
        k \in 0..MaxLen, r \in 0..3}

ValidTemplate(path, autoDetect, fieldName) ==
    [Provider |-> W("p"),
     Request |-> [URL |-> W("u"), Method |-> W("POST"), Headers |-> EmptyMap,
                  Body |-> JMap(EmptyMap)],
     Response |-> [Path |-> path, AutoDetect |-> autoDetect,
                   ResponseFieldName |-> fieldName]]

ExtractInit ==
    /\ pc = "responded"
    /\ \E path \in {PathString(segs) : segs \in StructuredPaths} \cup RawPaths :
            template = ValidTemplate(path, FALSE, << >>)
    /\ loaded = template
    /\ httpResp \in {[StatusCode |-> StatusOK, Body |-> b] : b \in PathBodies}
    /\ rawTemplate = JNull
    /\ err = NoError
    /\ replacements = EmptyMap
    /\ result = NoResult
    /\ NoCommandLine

\* c.extractResponseContentByPath(body, template.Response.Path)
DoExtractByPath ==
    /\ pc = "responded"
    /\ result' = extractResponseContentByPath(httpResp.Body, template.Response.Path)
    /\ pc' = "extracted"
    /\ events' = Append(events, Event("byPath", << >>))
    /\ UNCHANGED <<rawTemplate, template, loaded, err, replacements, httpResp>>
    /\ UNCHANGED <<varFlags, stdin, keySources, apiKey, cmd, output, templateDir>>

ExtractNext == DoExtractByPath

ExtractSpec == ExtractInit /\ [][ExtractNext]_vars

DetectBodies ==
    {NotJSON, JNull, JArr(<< >>)} \cup
    {JMap(Field(W("response"), re) @@ Field(W("choices"), ch) @@ Field(W("content"), co)
          @@ Field(W("completion"), cm) @@ Field(W("generations"), ge)
          @@ Field(W("custom"), cu) @@ W("usage") :> Usage) :
        re \in {Absent, JStr(W("r")), JNum(1)},
        ch \in {Absent, JArr(<< >>), JStr(W("s")), JArr(<<JNull>>),
                JArr(<<JMap(W("message") :> JMap(W("content") :> JStr(W("mc"))))>>),
                JArr(<<JMap(W("text") :> JStr(W("ct")))>>),
                JArr(<<JMap(W("message") :> JMap(W("content") :> JStr(W("mc")))
                            @@ W("text") :> JStr(W("ct")))>>),
                JArr(<<JMap(W("message") :> JMap(W("content") :> JNull)
                            @@ W("text") :> JStr(W("ct")))>>)},
        co \in {Absent, JNull, JStr(W("c")), JArr(<<JMap(W("text") :> JStr(W("bt")))>>)},
        cm \in {Absent, JStr(W("k"))},
        ge \in {Absent, JArr(<<JMap(W("text") :> JStr(W("g")))>>)},
        cu \in {Absent, JStr(W("cu"))}}

\* Status codes of the responses: success, two other 2xx codes, a server
\* error.
Statuses == {StatusOK, 201, 204, 500}

CallInit ==
    /\ pc = "responded"
    /\ template \in {ValidTemplate(path, ad, hint) :
            path \in {DefaultPath, W("content"), <<"usage", ".", "n">>},
            ad \in BOOLEAN,
            hint \in {<< >>, W("custom"), W("usage")}}
    /\ loaded = template
    /\ httpResp \in {[StatusCode |-> st, Body |-> b] :
            st \in Statuses, b \in DetectBodies}
    /\ rawTemplate = JNull
    /\ err = NoError
    /\ replacements = EmptyMap
    /\ result = NoResult
    /\ NoCommandLine

\* provider.Call(template), once the transport has handed back httpResp
DoCall ==
    /\ pc = "responded"
    /\ result' = CallResponse(template, httpResp)
    /\ pc' = "called"
    /\ events' = events \o CallEvents(template, httpResp)
    /\ UNCHANGED <<rawTemplate, template, loaded, err, replacements, httpResp>>
    /\ UNCHANGED <<varFlags, stdin, keySources, apiKey, cmd, output, templateDir>>

\* c.autoDetectResponseContent(body, template.Response.ResponseFieldName)
DoAutoDetect ==
    /\ pc = "responded"
    /\ result' = autoDetectResponseContent(httpResp.Body, template.Response.ResponseFieldName)
    /\ pc' = "detected"
    /\ events' = Append(events, Event("autoDetect", << >>))
    /\ UNCHANGED <<rawTemplate, template, loaded, err, replacements, httpResp>>
    /\ UNCHANGED <<varFlags, stdin, keySources, apiKey, cmd, output, templateDir>>

CallNext == DoCall \/ DoAutoDetect

CallSpec == CallInit /\ [][CallNext]_vars

----------------------------------------------------------------------------
(* Claims about path navigation *)

\* Reading the body as JSON: the node a structured path leads to, Absent if
\* some named field is not in the current object or some index is not
\* within the array.
RECURSIVE Resolve(_, _)
Resolve(node, segs) ==
    IF segs = << >> THEN node
    ELSE LET seg == Head(segs)
             field == Member(node, seg.name)
         IN IF field = Absent THEN Absent
            ELSE IF ~seg.hasIdx THEN Resolve(field, Tail(segs))
            ELSE IF field.t = "array" /\ seg.idx < Len(field.v)
                 THEN Resolve(field.v[seg.idx + 1], Tail(segs))
                 ELSE Absent

\* The error the first unresolvable segment calls for, NoError if every
\* segment from the i-th on resolves.
RECURSIVE FirstFailure(_, _, _)
FirstFailure(node, segs, i) ==
    IF i > Len(segs) THEN NoError
    ELSE LET seg == segs[i]
             field == Member(node, seg.name)
             pathSoFar == PathString(SubSeq(segs, 1, i))
         IN IF field = Absent THEN FieldNotFound(seg.name, pathSoFar)
            ELSE IF ~seg.hasIdx THEN FirstFailure(field, segs, i + 1)
            ELSE IF field.t # "array" THEN NotAnArray(GoType(field), seg.name, pathSoFar)
            ELSE IF seg.idx >= Len(field.v)
                 THEN IndexOutOfBounds(seg.idx, Len(field.v), pathSoFar)
                 ELSE FirstFailure(field.v[seg.idx + 1], segs, i + 1)

\* The structured paths the path under extraction is the text of.
PathsOf(path) == {segs \in StructuredPaths : PathString(segs) = path}

\* C4: for a JSON object body and a path whose segments all resolve,
\* extraction succeeds with the node at that place: a string as it is, a
\* number, boolean or null as its default rendering, never an error.
C4_ResolvedPathReturnsNode ==
    (pc = "extracted" /\ httpResp.Body.t = "map") =>
        \A segs \in PathsOf(template.Response.Path) :
            LET node == Resolve(httpResp.Body, segs)
            IN node # Absent =>
                /\ result.kind = "value"
                /\ node.t \in {"string", "number", "bool", "null"}
                        => result.val = Sprintv(node)

\* C5: navigation fails at the first segment that cannot be resolved, with
\* FieldNotFound for an absent field, NotAnArray for an indexed field that is
\* no array, IndexOutOfBounds with index and length for index >= length, and
\* with the path up to and including that segment.
C5_FirstFailingSegmentReported ==
    (pc = "extracted" /\ httpResp.Body.t = "map") =>
        \A segs \in PathsOf(template.Response.Path) :
            LET e == FirstFailure(httpResp.Body, segs, 1)
            IN e # NoError =>
                /\ result.kind = "error"
                /\ result.err.kind = e.kind
                /\ result.err.path = e.path
                /\ e.kind \in {"FieldNotFound", "NotAnArray"} => result.err.field = e.field
                /\ e.kind = "IndexOutOfBounds" =>
                        result.err.index = e.index /\ result.err.length = e.length

----------------------------------------------------------------------------
(* Claims about auto-detection and the fallback *)

\* One step into a JSON value: a member of an object or an element of an
\* array.
K(name) == [isIdx |-> FALSE, key |-> W(name), idx |-> 0]
At(i) == [isIdx |-> TRUE, key |-> << >>, idx |-> i]

RECURSIVE Lookup(_, _)
Lookup(node, steps) ==
    IF steps = << >> THEN node
    ELSE LET st == Head(steps)
         IN IF st.isIdx
            THEN IF node.t = "array" /\ st.idx < Len(node.v)
                 THEN Lookup(node.v[st.idx + 1], Tail(steps)) ELSE Absent
            ELSE IF Member(node, st.key) = Absent THEN Absent
                 ELSE Lookup(Member(node, st.key), Tail(steps))

\* The recognized shapes, in the priority order the specification lists.
Shapes ==
    << <<K("response")>>,
       <<K("choices"), At(0), K("message"), K("content")>>,
       <<K("choices"), At(0), K("text")>>,
       <<K("content")>>,
       <<K("completion")>>,
       <<K("generations"), At(0), K("text")>>,
       <<K("content"), At(0), K("text")>> >>

Matching(body) == {i \in 1..Len(Shapes) : IsString(Lookup(body, Shapes[i]))}

FirstShape(body) ==
    LET first == CHOOSE i \in Matching(body) : \A j \in Matching(body) : i <= j
    IN IF Matching(body) = {} THEN Failure(AutoDetectFailed)
       ELSE Value(Lookup(body, Shapes[first]).v)

Decodes(body) == body.t \in {"map", "null"}
HintMatches(body, hint) == hint # << >> /\ IsString(Member(body, hint))

\* C6: with auto_detect on and auto-detection succeeding the auto-detected
\* value is the result; with auto_detect on and auto-detection failing (no
\* shape, or a body that does not parse) the result is what path navigation
\* gives, value or error; with auto_detect off the result is what path
\* navigation gives whatever the body looks like.
C6_FallbackPolicy ==
    (pc = "called" /\ httpResp.StatusCode = StatusOK) =>
        LET body == httpResp.Body
            hint == template.Response.ResponseFieldName
            autoOK == Decodes(body) /\ (HintMatches(body, hint) \/ Matching(body) # {})
            autoVal == IF HintMatches(body, hint) THEN Value(Member(body, hint).v)
                       ELSE FirstShape(body)
        IN IF template.Response.AutoDetect /\ autoOK THEN result = autoVal
           ELSE result = extractResponseContentByPath(body, template.Response.Path)

\* Auto-detection found no shape in a parseable body and the path led to a
\* present field, whose value came back.
C6_Witness ==
    /\ pc = "called" /\ httpResp.StatusCode = StatusOK
    /\ template.Response.AutoDetect
    /\ httpResp.Body.t = "map" /\ Matching(httpResp.Body) = {}
    /\ ~HintMatches(httpResp.Body, template.Response.ResponseFieldName)
    /\ template.Response.Path = <<"usage", ".", "n">>
    /\ result = Value(<<"4", "2">>)

\* C7: without a matching hint auto-detection returns the value of the
\* first matching shape in the fixed order, and fails exactly when no shape
\* matches.
C7_FirstMatchingShape ==
    (/\ pc = "detected" /\ Decodes(httpResp.Body)
     /\ ~HintMatches(httpResp.Body, template.Response.ResponseFieldName)) =>
        result = FirstShape(httpResp.Body)

\* A body with both a response string and choices[0].message.content gave
\* the response value.
C7_Witness ==
    /\ pc = "detected"
    /\ template.Response.ResponseFieldName = << >>
    /\ {1, 2, 3, 4} \subseteq Matching(httpResp.Body)
    /\ result = Value(W("r"))

\* C8: a hinted field that is a top-level string is returned whatever
\* shapes the body has; with the hinted field absent or no string the
\* ordinary probing decides.
C8_HintShortCircuits ==
    (pc = "detected" /\ Decodes(httpResp.Body)) =>
        LET body == httpResp.Body
            hint == template.Response.ResponseFieldName
        IN /\ HintMatches(body, hint) => result = Value(Member(body, hint).v)
           /\ (hint # << >> /\ ~IsString(Member(body, hint))) => result = FirstShape(body)

\* The hinted field won over a response field and a choices array.
C8_Witness ==
    /\ pc = "detected"
    /\ template.Response.ResponseFieldName = W("custom")
    /\ {1, 2} \subseteq Matching(httpResp.Body)
    /\ result = Value(W("cu"))

----------------------------------------------------------------------------
(* Claims about the status check *)

\* The extraction operations in the log.
ExtractionEvents == {i \in DOMAIN events : events[i].op \in {"autoDetect", "byPath"}}

\* C12: a response whose status is not exactly 200, other 2xx codes
\* included, makes Call fail with an error that carries the status code and
\* the body as received, and no auto-detection and no path navigation runs
\* on that body.
C12_Non200IsAPIError ==
    (pc = "called" /\ httpResp.StatusCode # StatusOK) =>
        /\ result = Failure(APIError(httpResp.StatusCode, httpResp.Body))
        /\ ExtractionEvents = {}

\* A 201 response whose body auto-detection would have accepted was turned
\* into an error.
C12_Witness ==
    /\ pc = "called"
    /\ httpResp.StatusCode = 201
    /\ Matching(httpResp.Body) # {}
    /\ result.kind = "error" /\ result.err.kind = "APIError"
    /\ result.err.status = 201
    /\ ExtractionEvents = {}

----------------------------------------------------------------------------
(* cmd: the --var flags *)

InvalidVarFormat(varFlag) == [kind |-> "InvalidVarFormat", flag |-> varFlag]
EmptyVarName(varFlag) == [kind |-> "EmptyVarName", flag |-> varFlag]
StdinReadError(name) == [kind |-> "StdinReadError", name |-> name]
EmptyFilePath(name) == [kind |-> "EmptyFilePath", name |-> name]
FileReadError(path, name) == [kind |-> "FileReadError", path |-> path, name |-> name]
\* A variant that reports the variable where the kind belongs.
UnsupportedVarType_Swapped(varType, name) ==
    [kind |-> "UnsupportedVarType", type |-> name, name |-> varType]

UnsupportedVarType(varType, name) ==
    [kind |-> "UnsupportedVarType", type |-> varType, name |-> name]

\* A variant that splits at every separator.
RECURSIVE SplitN_Unlimited(_, _, _)
SplitN_Unlimited(s, sep, n) ==
    IF ~Contains(s, sep) THEN <<s>>
    ELSE <<SubSeq(s, 1, Index(s, sep))>>
         \o SplitN_Unlimited(SubSeq(s, Index(s, sep) + 2, Len(s)), sep, n)

\* strings.SplitN(s, sep, n) for n > 0: at most n parts, the last one
\* holding the unsplit rest.
RECURSIVE SplitN(_, _, _)
SplitN(s, sep, n) ==
    IF n = 1 \/ ~Contains(s, sep) THEN <<s>>
    ELSE <<SubSeq(s, 1, Index(s, sep))>>
         \o SplitN(SubSeq(s, Index(s, sep) + 2, Len(s)), sep, n - 1)

\* The files os.ReadFile can read, by path, with their content; any other
\* path is an error.
Files == W("f") :> <<" ", "from file", "\n">> @@ W("e") :> << >>

\* A variant that drops a final newline from what it read.
ReadAll_TrimsNewline(in) ==
    [ok |-> in.ok,
     data |-> IF in.data # << >> /\ in.data[Len(in.data)] = "\n"
              THEN SubSeq(in.data, 1, Len(in.data) - 1) ELSE in.data,
     rest |-> [in EXCEPT !.data = << >>]]

\* A variant that leaves the stream where it was.
ReadAll_Rewinds(in) == [ok |-> in.ok, data |-> in.data, rest |-> in]

\* io.ReadAll(os.Stdin): everything up to the end of the stream, which is
\* then at its end; or an error.
ReadAll(in) == [ok |-> in.ok, data |-> in.data, rest |-> [in EXCEPT !.data = << >>]]

\* A variant that keeps the value a name already has.
SetVar_KeepsFirst(replaceVars, name, value) == replaceVars @@ (name :> value)

\* replaceVars[name] = value
SetVar(replaceVars, name, value) == (name :> value) @@ replaceVars

\* One turn of the loop of parseVarFlags.  st holds the map built so far,
\* the error returned (NoError while the loop runs), standard input and
\* the log of reads.
ParseVarFlag(st, varFlag) ==
    LET parts == SplitN(varFlag, ":", 3)
        name == parts[1]
        varType == IF Len(parts) = 2 THEN W("text") ELSE parts[2]
        value == IF Len(parts) = 2 THEN parts[2] ELSE parts[3]
        fail(e) == [st EXCEPT !.vars = EmptyMap, !.err = e]
        readStdin ==
            LET after == [st EXCEPT !.events = Append(@, Event("stdin", << >>))]
                stdinContent == ReadAll(st.stdin)
            IN IF stdinContent.ok
               THEN [after EXCEPT !.vars = SetVar(@, name, stdinContent.data),
                                  !.stdin = stdinContent.rest]
               ELSE [after EXCEPT !.vars = EmptyMap, !.err = StdinReadError(name)]
        readFile ==
            LET after == [st EXCEPT !.events = Append(@, Event("file", value))]
            IN IF value \in DOMAIN Files
               THEN [after EXCEPT !.vars = SetVar(@, name, Files[value])]
               ELSE [after EXCEPT !.vars = EmptyMap, !.err = FileReadError(value, name)]
    IN IF Len(parts) < 2 THEN fail(InvalidVarFormat(varFlag))
       ELSE IF name = << >> THEN fail(EmptyVarName(varFlag))
       ELSE IF varType = W("text")
       THEN IF value = W("-") THEN readStdin
            ELSE [st EXCEPT !.vars = SetVar(@, name, value)]
       ELSE IF varType = W("file")
       THEN IF value = W("-") THEN readStdin
            ELSE IF value = << >> THEN fail(EmptyFilePath(name))
            ELSE readFile
       ELSE fail(UnsupportedVarType(varType, name))

RECURSIVE ParseVarFlagsFrom(_, _)
ParseVarFlagsFrom(st, flags) ==
    IF flags = << >> \/ st.err # NoError THEN st
    ELSE ParseVarFlagsFrom(ParseVarFlag(st, Head(flags)), Tail(flags))

\* parseVarFlags: the map and the error it returns, and what it did to
\* standard input.
parseVarFlags(flags, in, log) ==
    ParseVarFlagsFrom([vars |-> EmptyMap, err |-> NoError, stdin |-> in, events |-> log],
                      flags)

----------------------------------------------------------------------------
(* Inputs of the variable specification *)

\* name:value, name:kind:value and malformed flags.
Flag2(name, value) == name \o W(":") \o value
Flag3(name, kind, value) == name \o W(":") \o kind \o W(":") \o value

FlagPool ==
    {W("a"), Flag2(<< >>, W("x")), Flag2(W("a"), W("x")), Flag2(W("a"), W("-")),
     Flag3(W("a"), W("text"), <<"x", ":", "y", ":">>),
     Flag3(W("a"), W("file"), W("f")), Flag3(W("a"), W("file"), W("-")),
     Flag3(W("a"), W("file"), W("nofile")), Flag3(W("a"), W("file"), << >>),
     Flag3(W("a"), W("base64"), W("eA==")),
     Flag2(W("b"), W("y")), Flag3(W("b"), W("text"), W("-"))}

\* The lists of at most n flags of a pool.
RECURSIVE FlagLists(_, _)
FlagLists(pool, n) ==
    IF n = 0 THEN {<< >>}
    ELSE FlagLists(pool, n - 1) \cup
         {Append(l, f) : l \in {x \in FlagLists(pool, n - 1) : Len(x) = n - 1}, f \in pool}

Stdins ==
    {[ok |-> TRUE, data |-> <<" ", "from stdin", "\n">>],
     [ok |-> TRUE, data |-> << >>],
     [ok |-> FALSE, data |-> << >>]}

VarInit ==
    /\ pc = "flags"
    /\ varFlags \in FlagLists(FlagPool, MaxFlags)
    /\ stdin \in Stdins
    /\ rawTemplate = JNull
    /\ template = NoTemplate
    /\ loaded = NoTemplate
    /\ err = NoError
    /\ replacements = EmptyMap
    /\ httpResp = NoResponse
    /\ result = NoResult
    /\ keySources = NoKeySources
    /\ apiKey = << >>
    /\ events = << >>
    /\ cmd = PlainCmd
    /\ output = NoOutput
    /\ templateDir = NoDir

\* runCall: replaceVars, err := parseVarFlags(varFlags); an error ends the
\* command.
DoParseVarFlags ==
    /\ pc = "flags"
    /\ LET r == parseVarFlags(varFlags, stdin, events)
       IN /\ replacements' = r.vars
          /\ err' = r.err
          /\ stdin' = r.stdin
          /\ events' = r.events
          /\ pc' = IF r.err = NoError THEN "start" ELSE "failed"
    /\ UNCHANGED <<rawTemplate, template, loaded, httpResp, result, varFlags,
                   keySources, apiKey, cmd, output, templateDir>>

VarNext == DoParseVarFlags

VarSpec == VarInit /\ [][VarNext]_vars

----------------------------------------------------------------------------
(* Claims about the --var flags *)

\* Reading a flag by the position of its separators: the name is what
\* stands before the first ':', the kind what stands between the first and
\* the second, the value everything after the second (after the first when
\* there is only one).
Colons(f) == {i \in 1..Len(f) : f[i] = ":"}
FirstColon(f) == CHOOSE i \in Colons(f) : \A j \in Colons(f) : i <= j
SecondColon(f) ==
    CHOOSE i \in Colons(f) \ {FirstColon(f)} : \A j \in Colons(f) \ {FirstColon(f)} : i <= j
PartsOf(f) == IF Cardinality(Colons(f)) >= 2 THEN 3 ELSE Cardinality(Colons(f)) + 1
NameOf(f) == SubSeq(f, 1, FirstColon(f) - 1)
KindOf(f) ==
    IF PartsOf(f) = 2 THEN W("text") ELSE SubSeq(f, FirstColon(f) + 1, SecondColon(f) - 1)
ValueOf(f) ==
    IF PartsOf(f) = 2 THEN SubSeq(f, FirstColon(f) + 1, Len(f))
    ELSE SubSeq(f, SecondColon(f) + 1, Len(f))
Malformed(f) == PartsOf(f) < 2 \/ NameOf(f) = << >>

\* Whether resolving flag f ends in an error, read off the flag, the files
\* and the state of standard input.
FlagFails(f) ==
    \/ Malformed(f)
    \/ KindOf(f) \notin {W("text"), W("file")}
    \/ ValueOf(f) = W("-") /\ ~stdin.ok
    \/ KindOf(f) = W("file") /\ ValueOf(f) # W("-") /\ ValueOf(f) \notin DOMAIN Files

\* The first flag whose resolution fails; 0 when none does.
FirstFailing ==
    IF \E i \in 1..Len(varFlags) : FlagFails(varFlags[i])
    THEN CHOOSE i \in 1..Len(varFlags) :
            FlagFails(varFlags[i]) /\ \A j \in 1..(i - 1) : ~FlagFails(varFlags[j])
    ELSE 0

Resolved == pc \in {"start", "failed"}

\* The flags that declare the same name as flag i and come after it.
LaterSameName(i) ==
    {j \in (i + 1)..Len(varFlags) : NameOf(varFlags[j]) = NameOf(varFlags[i])}

\* C15: a flag is split at its first two ':' only.  With one ':' the kind
\* is text and the value what follows it; with two or more the kind stands
\* between the first two and the value is everything after the second,
\* further ':' included.  A flag without ':' or with an empty name makes the
\* resolution fail as malformed, with no bindings.
C15_SplitRule ==
    Resolved =>
        /\ (FirstFailing # 0 /\ Malformed(varFlags[FirstFailing])) =>
                /\ pc = "failed"
                /\ replacements = EmptyMap
                /\ err = IF PartsOf(varFlags[FirstFailing]) < 2
                         THEN InvalidVarFormat(varFlags[FirstFailing])
                         ELSE EmptyVarName(varFlags[FirstFailing])
        /\ pc = "failed" =>
                (err.kind \in {"InvalidVarFormat", "EmptyVarName"}
                    <=> Malformed(varFlags[FirstFailing]))
        /\ pc = "start" =>
                \A i \in 1..Len(varFlags) :
                    LET f == varFlags[i]
                    IN /\ ~Malformed(f)
                       /\ KindOf(f) \in {W("text"), W("file")}
                       /\ (KindOf(f) = W("text") /\ ValueOf(f) # W("-")
                            /\ LaterSameName(i) = {}) =>
                                replacements[NameOf(f)] = ValueOf(f)

\* A value with further ':' was bound whole, after a two-part flag.
C15_Witness ==
    /\ pc = "start"
    /\ Len(varFlags) = 2
    /\ PartsOf(varFlags[1]) = 2 /\ NameOf(varFlags[1]) = W("b")
    /\ replacements[W("b")] = W("y")
    /\ PartsOf(varFlags[2]) = 3
    /\ replacements[W("a")] = <<"x", ":", "y", ":">>

\* The well-formed flags whose value is the '-' sentinel of a text or file
\* variable, and the first of them.
DashFlags ==
    {i \in 1..Len(varFlags) :
        /\ ~Malformed(varFlags[i])
        /\ KindOf(varFlags[i]) \in {W("text"), W("file")}
        /\ ValueOf(varFlags[i]) = W("-")}
FirstDash(i) == i \in DashFlags /\ \A j \in DashFlags : i <= j

\* What the declaration at position i stands for, read off the flag, the
\* files and the stream as it is before the resolution.
Expected(i) ==
    LET f == varFlags[i]
    IN IF i \in DashFlags THEN (IF FirstDash(i) THEN stdin.data ELSE << >>)
       ELSE IF KindOf(f) = W("file") THEN Files[ValueOf(f)]
       ELSE ValueOf(f)

ResolutionSucceeds == pc = "flags" /\ pc' = "start"

\* C17: values are bound as they are.  A text value other than '-' is
\* bound verbatim, a text or file variable with '-' to the whole content of
\* standard input, a file variable to the exact content of its file.
C17_BoundVerbatim ==
    [][ResolutionSucceeds =>
        \A i \in 1..Len(varFlags) :
            LET f == varFlags[i]
            IN LaterSameName(i) = {} =>
                /\ (KindOf(f) = W("text") /\ ValueOf(f) # W("-")) =>
                        replacements'[NameOf(f)] = ValueOf(f)
                /\ FirstDash(i) => replacements'[NameOf(f)] = stdin.data
                /\ (KindOf(f) = W("file") /\ ValueOf(f) # W("-")) =>
                        replacements'[NameOf(f)] = Files[ValueOf(f)]]_vars

\* A file variable and a '-' variable were bound with their blanks and line
\* ends in place.
C17_Witness ==
    /\ pc = "start"
    /\ varFlags = <<Flag3(W("a"), W("file"), W("f")), Flag3(W("b"), W("text"), W("-"))>>
    /\ replacements[W("a")] = <<" ", "from file", "\n">>
    /\ replacements[W("b")] = <<" ", "from stdin", "\n">>

\* C18: with several '-' variables the first one in flag order gets the
\* whole stream, every later one the empty string, the stream is left at its
\* end, and the resolution does not fail for that reason.
C18_StdinConsumedOnce ==
    [][pc = "flags" =>
        /\ (FirstFailing = 0) => pc' = "start"
        /\ pc' = "start" =>
            /\ DashFlags # {} => stdin'.data = << >>
            /\ \A i \in DashFlags :
                    LaterSameName(i) = {} =>
                        replacements'[NameOf(varFlags[i])] =
                            IF FirstDash(i) THEN stdin.data ELSE << >>]_vars

\* Two '-' variables: the first holds the stream, the second is empty.
C18_Witness ==
    /\ pc = "start"
    /\ varFlags = <<Flag2(W("a"), W("-")), Flag3(W("b"), W("text"), W("-"))>>
    /\ replacements[W("a")] = <<" ", "from stdin", "\n">>
    /\ replacements[W("b")] = << >>

\* C19: the map holds exactly the declared names, each with the value of
\* its last declaration in flag order whatever the kinds; a name declared
\* once has the value of its one declaration.
C19_LastDeclarationWins ==
    [][ResolutionSucceeds =>
        /\ DOMAIN replacements' = {NameOf(varFlags[i]) : i \in 1..Len(varFlags)}
        /\ \A i \in 1..Len(varFlags) :
                LaterSameName(i) = {} => replacements'[NameOf(varFlags[i])] = Expected(i)]_vars

\* a declared as text, then b, then a again from a file: a holds the file.
C19_Witness ==
    /\ pc = "start"
    /\ varFlags = <<Flag2(W("a"), W("x")), Flag2(W("b"), W("y")),
                    Flag3(W("a"), W("file"), W("f"))>>
    /\ replacements = (W("a") :> <<" ", "from file", "\n">>) @@ (W("b") :> W("y"))

----------------------------------------------------------------------------
(* cmd: the API key *)

\* Letters in their two cases; every other symbol has one case only.
CasePairs ==
    {<<"a", "A">>, <<"e", "E">>, <<"g", "G">>, <<"n", "N">>, <<"p", "P">>,
     <<"r", "R">>, <<"s", "S">>, <<"t", "T">>, <<"u", "U">>, <<"x", "X">>,
     <<"_api_key", "_API_KEY">>, <<"api_key", "API_KEY">>}
UpperSym(c) ==
    IF \E pr \in CasePairs : pr[1] = c THEN (CHOOSE pr \in CasePairs : pr[1] = c)[2] ELSE c
LowerSym(c) ==
    IF \E pr \in CasePairs : pr[2] = c THEN (CHOOSE pr \in CasePairs : pr[2] = c)[1] ELSE c

\* strings.ToUpper
ToUpper(s) == [i \in 1..Len(s) |-> UpperSym(s[i])]

\* os.Getenv: the empty string for a variable that is not set.  Windows
\* looks names up without regard to case (and holds no two names that
\* differ in case only).
Getenv(env, windows, key) ==
    IF key \in DOMAIN env THEN env[key]
    ELSE IF windows /\ \E n \in DOMAIN env : ToUpper(n) = ToUpper(key)
    THEN env[CHOOSE n \in DOMAIN env : ToUpper(n) = ToUpper(key)]
    ELSE << >>

\* utils.GetEnvironmentVariableCaseInsensitive: the exact name first; on
\* Windows then the first entry of the environment whose name matches in
\* upper case.
GetEnvironmentVariableCaseInsensitive(env, windows, key) ==
    IF Getenv(env, windows, key) # << >> THEN Getenv(env, windows, key)
    ELSE IF windows /\ \E n \in DOMAIN env : ToUpper(n) = ToUpper(key)
    THEN env[CHOOSE n \in DOMAIN env : ToUpper(n) = ToUpper(key)]
    ELSE << >>

\* A variant that looks at the generic key of the secrets file before the
\* provider's.
getAPIKey_GenericFirst(cliAPIKey, secrets, env, windows, provider) ==
    LET fileKey(k) == IF secrets.ok /\ k \in DOMAIN secrets.keys THEN secrets.keys[k] ELSE << >>
        envKey(k) == GetEnvironmentVariableCaseInsensitive(env, windows, k)
    IN IF cliAPIKey # << >> THEN cliAPIKey
       ELSE IF fileKey(W("api_key")) # << >> THEN fileKey(W("api_key"))
       ELSE IF provider # << >> /\ fileKey(provider \o W("_api_key")) # << >>
       THEN fileKey(provider \o W("_api_key"))
       ELSE IF fileKey(W("default_api_key")) # << >> THEN fileKey(W("default_api_key"))
       ELSE IF provider # << >> /\ envKey(ToUpper(provider) \o W("_API_KEY")) # << >>
       THEN envKey(ToUpper(provider) \o W("_API_KEY"))
       ELSE envKey(W("API_KEY"))

\* getAPIKey: --api-key, then the secrets file (when one is configured
\* and loads), then the environment; the empty string when none has a key.
getAPIKey(cliAPIKey, secrets, env, windows, provider) ==
    LET fileKey(k) == IF secrets.ok /\ k \in DOMAIN secrets.keys THEN secrets.keys[k] ELSE << >>
        envKey(k) == GetEnvironmentVariableCaseInsensitive(env, windows, k)
    IN IF cliAPIKey # << >> THEN cliAPIKey
       ELSE IF provider # << >> /\ fileKey(provider \o W("_api_key")) # << >>
       THEN fileKey(provider \o W("_api_key"))
       ELSE IF fileKey(W("api_key")) # << >> THEN fileKey(W("api_key"))
       ELSE IF fileKey(W("default_api_key")) # << >> THEN fileKey(W("default_api_key"))
       ELSE IF provider # << >> /\ envKey(ToUpper(provider) \o W("_API_KEY")) # << >>
       THEN envKey(ToUpper(provider) \o W("_API_KEY"))
       ELSE envKey(W("API_KEY"))

\* A variant that leaves a declared api_key variable alone.
InjectAPIKey_KeepsDeclared(replaceVars, key) ==
    IF key # << >> /\ W("api_key") \notin DOMAIN replaceVars
    THEN SetVar(replaceVars, W("api_key"), key) ELSE replaceVars

\* runCall: if apiKey != "" { replaceVars["api_key"] = apiKey }
InjectAPIKey(replaceVars, key) ==
    IF key # << >> THEN SetVar(replaceVars, W("api_key"), key) ELSE replaceVars

----------------------------------------------------------------------------
(* pkg/llm: the outbound request *)

\* textproto.CanonicalMIMEHeaderKey: the first letter and every letter after
\* a '-' in upper case, the others in lower case.
RECURSIVE Canonical(_, _)
Canonical(s, upper) ==
    IF s = << >> THEN << >>
    ELSE <<IF upper THEN UpperSym(Head(s)) ELSE LowerSym(Head(s))>>
         \o Canonical(Tail(s), Head(s) = "-")
CanonicalMIMEHeaderKey(s) == Canonical(s, TRUE)

\* A variant that stores the key as it is written.
HeaderSet_AsWritten(h, key, value) == (key :> value) @@ h

\* http.Header.Set
HeaderSet(h, key, value) == (CanonicalMIMEHeaderKey(key) :> value) @@ h

UserAgentKey == <<"U", "s", "e", "r", "-", "A", "g", "e", "n", "t">>
UserAgent == W("https://github.com/nodewee/llm-caller")

\* The loop over template.Request.Headers run in one order of the keys.
RECURSIVE SetHeadersInOrder(_, _, _)
SetHeadersInOrder(h, headers, order) ==
    IF order = << >> THEN h
    ELSE SetHeadersInOrder(HeaderSet(h, Head(order), headers[Head(order)]),
                           headers, Tail(order))

\* The keys of JSON objects in the order json.Marshal writes them (sorted).
KeyOrder == <<W("k"), W("m"), W("n")>>

RECURSIVE Escape(_)
Escape(s) ==
    IF s = << >> THEN << >>
    ELSE (CASE Head(s) = "\n" -> <<"\\", "n">>
            [] Head(s) = "\"" -> <<"\\", "\"">>
            [] OTHER -> <<Head(s)>>) \o Escape(Tail(s))

Quote(s) == <<"\"">> \o Escape(s) \o <<"\"">>

\* A variant that writes every string leaf as the empty string.
RECURSIVE Marshal(_)
Marshal_BlanksStrings(j) ==
    CASE j.t = "string" -> Quote(<< >>)
      [] j.t = "number" -> Itoa(j.v)
      [] j.t = "bool" -> IF j.v THEN W("true") ELSE W("false")
      [] j.t = "null" -> W("null")
      [] j.t = "array" ->
            W("[") \o Join([i \in 1..Len(j.v) |-> Marshal(j.v[i])], ",") \o W("]")
      [] j.t = "map" ->
            LET keys == SelectSeq(KeyOrder, LAMBDA k : k \in DOMAIN j.v)
            IN W("{") \o Join([i \in 1..Len(keys) |->
                                Quote(keys[i]) \o W(":") \o Marshal(j.v[keys[i]])], ",")
                     \o W("}")

\* json.Marshal of a decoded JSON value.
Marshal(j) ==
    CASE j.t = "string" -> Quote(j.v)
      [] j.t = "number" -> Itoa(j.v)
      [] j.t = "bool" -> IF j.v THEN W("true") ELSE W("false")
      [] j.t = "null" -> W("null")
      [] j.t = "array" ->
            W("[") \o Join([i \in 1..Len(j.v) |-> Marshal(j.v[i])], ",") \o W("]")
      [] j.t = "map" ->
            LET keys == SelectSeq(KeyOrder, LAMBDA k : k \in DOMAIN j.v)
            IN W("{") \o Join([i \in 1..Len(keys) |->
                                Quote(keys[i]) \o W(":") \o Marshal(j.v[keys[i]])], ",")
                     \o W("}")

\* http.NewRequest rejects a method that is not a token and a URL with a
\* control character in it.
NewRequestOK(method, url) == ~Contains(method, " ") /\ ~Contains(url, "\n")

\* The transport refuses to send a header value with a line end in it.
ValidHeaderValue(v) == ~Contains(v, "\n")

CreateRequestError == [kind |-> "CreateRequestError"]
SendRequestError == [kind |-> "SendRequestError"]

\* The requests Call may build from a template: one for every order in
\* which the loop can visit the headers.
BuildRequest(t) ==
    {[Method |-> t.Request.Method,
      URL |-> t.Request.URL,
      Header |-> HeaderSet(SetHeadersInOrder(EmptyMap, t.Request.Headers, o),
                           UserAgentKey, UserAgent),
      Body |-> Marshal(t.Request.Body)] :
        o \in RangeOrders(DOMAIN t.Request.Headers)}

----------------------------------------------------------------------------
(* cmd: a whole run of the call command *)

LowerUserAgentKey == <<"u", "s", "e", "r", "-", "a", "g", "e", "n", "t">>
UpperUserAgentKey == <<"U", "S", "E", "R", "-", "A", "G", "E", "N", "T">>

RunTemplates ==
    {JMap(W("provider") :> JStr(W("p")) @@ W("request") :> JMap(W("body") :> JMap(EmptyMap)))}
    \cup
    {JMap(W("provider") :> JStr(W("p"))
          @@ W("request") :> JMap(W("url") :> url @@ Field(W("method"), mb[1])
                                  @@ Field(W("headers"), he) @@ W("body") :> mb[2])) :
        url \in {JStr(W("u")), JStr(W("u") \o Token(W("a")))},
        he \in {Absent,
                JMap(W("Authorization") :> JStr(W("Bearer ") \o Token(W("api_key")))),
                JMap(LowerUserAgentKey :> JStr(W("mine"))
                     @@ <<"x", "-", "a">> :> JStr(Token(W("a")))),
                JMap(UpperUserAgentKey :> JStr(W("mine"))
                     @@ <<"x", "-", "a">> :> JStr(W("1"))
                     @@ <<"X", "-", "A">> :> JStr(W("2")))},
        mb \in {<<Absent, JMap(W("m") :> JStr(Token(W("a"))))>>,
                <<JStr(W("GET")),
                  JMap(W("m") :> JStr(Token(W("api_key"))) @@ W("n") :> JNum(7))>>}}

RunFlagPool ==
    {Flag2(W("a"), W("hello")), Flag2(W("a"), W("-")), Flag2(W("api_key"), W("mine")),
     Flag3(W("a"), W("base64"), W("eA=="))}

RunKeySources ==
    {NoKeySources,
     [NoKeySources EXCEPT !.cli = W("cli-key")],
     [NoKeySources EXCEPT !.file = [configured |-> TRUE, ok |-> TRUE,
                                   keys |-> W("api_key") :> W("file-key")],
                          !.env = W("API_KEY") :> W("env-key")],
     [NoKeySources EXCEPT !.env = W("P_API_KEY") :> W("env-p-key")]}

\* What the transport may hand back for a request.
RunResponses ==
    {[StatusCode |-> StatusOK,
      Body |-> JMap(W("choices") :>
                JArr(<<JMap(W("message") :> JMap(W("content") :> JStr(W("hi"))))>>))],
     [StatusCode |-> StatusOK, Body |-> JMap(W("usage") :> Usage)],
     [StatusCode |-> StatusOK, Body |-> JMap(W("response") :> JStr(W("answer")))],
     [StatusCode |-> 201, Body |-> JMap(W("response") :> JStr(W("created")))],
     [StatusCode |-> 500, Body |-> NotJSON]}

RunInit ==
    /\ pc = "flags"
    /\ varFlags \in FlagLists(RunFlagPool, MaxRunFlags)
    /\ stdin \in {[ok |-> TRUE, data |-> <<" ", "from stdin", "\n">>],
                   [ok |-> FALSE, data |-> << >>]}
    /\ rawTemplate \in RunTemplates
    /\ keySources \in RunKeySources
    /\ template = NoTemplate
    /\ loaded = NoTemplate
    /\ err = NoError
    /\ replacements = EmptyMap
    /\ httpResp = NoResponse
    /\ result = NoResult
    /\ apiKey = << >>
    /\ events = << >>
    /\ cmd = PlainCmd
    /\ output = NoOutput
    /\ templateDir = NoDir

\* runCall loading the template once the flags are parsed.
DoLoadTemplate ==
    /\ pc = "start"
    /\ LET r == parseTemplate(rawTemplate)
       IN /\ template' = r.tmpl
          /\ loaded' = r.tmpl
          /\ err' = r.err
          /\ pc' = IF r.err = NoError THEN "templated" ELSE "failed"
    /\ UNCHANGED <<rawTemplate, replacements, httpResp, result>>
    /\ UNCHANGED <<varFlags, stdin, keySources, apiKey, events, cmd, output, templateDir>>

\* runCall: apiKey, err := getAPIKey(...), then the api_key variable.
DoGetAPIKey ==
    /\ pc = "templated"
    /\ apiKey' = getAPIKey(keySources.cli, keySources.file, keySources.env,
                           keySources.windows, template.Provider)
    /\ replacements' = InjectAPIKey(replacements, apiKey')
    /\ pc' = "loaded"
    /\ UNCHANGED <<rawTemplate, template, loaded, err, httpResp, result>>
    /\ UNCHANGED <<varFlags, stdin, keySources, events, cmd, output, templateDir>>

\* provider.Call(template) up to the response: the request is built and
\* handed to the transport, which answers or fails.
DoSendRequest ==
    /\ \/ pc = "substituted"
       \/ pc = "loaded" /\ replacements = EmptyMap
    /\ IF ~NewRequestOK(template.Request.Method, template.Request.URL)
       THEN /\ err' = CreateRequestError
            /\ pc' = "failed"
            /\ UNCHANGED <<httpResp, events>>
       ELSE \E req \in BuildRequest(template) :
                IF \E k \in DOMAIN req.Header : ~ValidHeaderValue(req.Header[k])
                THEN /\ err' = SendRequestError
                     /\ pc' = "failed"
                     /\ UNCHANGED <<httpResp, events>>
                ELSE /\ events' = Append(events, Event("http", req))
                     /\ \/ /\ err' = SendRequestError
                           /\ pc' = "failed"
                           /\ UNCHANGED httpResp
                        \/ /\ httpResp' \in RunResponses
                           /\ pc' = "responded"
                           /\ UNCHANGED err
    /\ UNCHANGED <<rawTemplate, template, loaded, replacements, result>>
    /\ UNCHANGED <<varFlags, stdin, keySources, apiKey, cmd, output, templateDir>>

RunNext ==
    \/ DoParseVarFlags
    \/ DoLoadTemplate
    \/ DoGetAPIKey
    \/ DoReplaceVariables
    \/ DoSendRequest
    \/ DoCall

RunSpec == RunInit /\ [][RunNext]_vars

----------------------------------------------------------------------------
(* Claims about a whole run *)

\* The requests handed to the transport so far.
HTTPEvents == {i \in DOMAIN events : events[i].op = "http"}

Substituted ==
    IF replacements = EmptyMap THEN {loaded} ELSE ReplaceVariables(loaded, replacements)

\* C14: at most one request is handed to the transport in a run, also
\* after a failure; its method and url are those of the substituted template
\* and its body is the JSON text of the substituted request.body: for a body
\* {"m": s} the text {"m":"s"}.
C14_RequestFromSubstitutedTemplate ==
    /\ Cardinality(HTTPEvents) <= 1
    /\ \A i \in HTTPEvents :
        LET req == events[i].arg
        IN /\ \E t \in Substituted :
                /\ t = template
                /\ req.Method = t.Request.Method
                /\ req.URL = t.Request.URL
                /\ req.Body = Marshal(t.Request.Body)
           /\ (DOMAIN template.Request.Body.v = {W("m")}
               /\ ~Contains(template.Request.Body.v[W("m")].v, "\n")) =>
                    req.Body = <<"{", "\"", "m", "\"", ":", "\"">>
                               \o template.Request.Body.v[W("m")].v \o <<"\"", "}">>

\* Body {"m":"{{a}}"} with a = hello went out as {"m":"hello"}, and the
\* transport failed without a second attempt.
C14_Witness ==
    /\ pc = "failed" /\ err = SendRequestError
    /\ loaded.Request.Body = JMap(W("m") :> JStr(Token(W("a"))))
    /\ replacements = W("a") :> W("hello")
    /\ Cardinality(HTTPEvents) = 1
    /\ \A i \in HTTPEvents :
        /\ events[i].arg.Body = <<"{", "\"", "m", "\"", ":", "\"", "hello", "\"", "}">>
        /\ events[i].arg.Method = W("POST")

\* C16: when the resolution comes to a flag whose kind is neither text nor
\* file, it fails with the unsupported-kind error that names the kind and
\* the variable and returns no bindings; and a run with such a flag never
\* loads a template and never sends a request.
Unsupported(f) == ~Malformed(f) /\ KindOf(f) \notin {W("text"), W("file")}

C16_UnsupportedKindStopsRun ==
    pc # "flags" =>
        /\ (FirstFailing # 0 /\ Unsupported(varFlags[FirstFailing])) =>
                /\ err.kind = "UnsupportedVarType"
                /\ err.type = KindOf(varFlags[FirstFailing])
                /\ err.name = NameOf(varFlags[FirstFailing])
        /\ (\E i \in 1..Len(varFlags) : Unsupported(varFlags[i])) =>
                /\ pc = "failed"
                /\ replacements = EmptyMap
                /\ template = NoTemplate
                /\ HTTPEvents = {}

\* A base64 variable after a good one: the error names base64 and a, and
\* the binding of the good one is gone.
C16_Witness ==
    /\ pc = "failed"
    /\ varFlags = <<Flag2(W("a"), W("-")), Flag3(W("a"), W("base64"), W("eA=="))>>
    /\ err.kind = "UnsupportedVarType" /\ err.type = W("base64") /\ err.name = W("a")
    /\ replacements = EmptyMap
    /\ events # << >>

\* The run is past the API-key lookup.
KeyLookupDone ==
    \/ pc \in {"loaded", "substituted", "responded", "called"}
    \/ pc = "failed" /\ err.kind \in {"CreateRequestError", "SendRequestError"}

APIKeyDeclared == \E i \in 1..Len(varFlags) : NameOf(varFlags[i]) = W("api_key")

\* C20: after the lookup, a key K that is not empty is the api_key binding
\* even when a --var api_key was declared.  With an empty key nothing is
\* injected: a declared api_key keeps the declared value, and without one
\* {{api_key}} stays in the template; the run goes on to the request.
C20_APIKeyInjectedLast ==
    KeyLookupDone =>
        /\ apiKey # << >> =>
                W("api_key") \in DOMAIN replacements /\ replacements[W("api_key")] = apiKey
        /\ apiKey = << >> =>
                /\ W("api_key") \in DOMAIN replacements <=> APIKeyDeclared
                /\ APIKeyDeclared => replacements[W("api_key")] = W("mine")
                /\ ~APIKeyDeclared =>
                        \A pr \in TemplateLeafPairs(loaded, template) :
                            Occurrences(Token(W("api_key")), pr[1])
                                = Occurrences(Token(W("api_key")), pr[2])
                /\ pc = "loaded" => ENABLED (DoReplaceVariables \/ DoSendRequest)
                /\ pc = "substituted" => ENABLED DoSendRequest
        /\ \A n \in DOMAIN replacements \ {W("api_key")} :
                \E i \in 1..Len(varFlags) : NameOf(varFlags[i]) = n

\* No key anywhere and no api_key variable: the request went out with
\* {{api_key}} still in its Authorization header.
C20_Witness ==
    /\ pc = "responded"
    /\ apiKey = << >>
    /\ ~APIKeyDeclared
    /\ \E i \in HTTPEvents :
        /\ W("Authorization") \in DOMAIN events[i].arg.Header
        /\ events[i].arg.Header[W("Authorization")] = W("Bearer ") \o Token(W("api_key"))

\* A key from the command line replaced the value of a declared api_key
\* variable.
C20_WitnessOverride ==
    /\ pc = "loaded"
    /\ APIKeyDeclared
    /\ apiKey = W("cli-key")
    /\ replacements[W("api_key")] = W("cli-key")

----------------------------------------------------------------------------
(* Inputs of the API-key specification *)

\* A source that is absent, holds the empty string, or holds a value.
Presence == {"absent", "empty", "value"}
Entry(k, presence, v) ==
    CASE presence = "absent" -> EmptyMap
      [] presence = "empty" -> k :> << >>
      [] presence = "value" -> k :> v

KeySourcesAll ==
    {ks \in
        {[cli |-> cli,
          file |-> [configured |-> ok, ok |-> ok,
                    keys |-> Entry(<<"p", "_api_key">>, fp, W("file-p"))
                             @@ Entry(W("api_key"), fa, W("file-a"))
                             @@ Entry(W("default_api_key"), fd, W("file-d"))],
          env |-> Entry(<<"P", "_API_KEY">>, ep, W("env-p"))
                  @@ Entry(W("API_KEY"), ea, W("env-a"))
                  @@ Entry(<<"p", "_api_key">>, el, W("env-lower")),
          windows |-> win] :
            cli \in {<< >>, W("cli-key")},
            ok \in BOOLEAN,
            fp \in Presence, fa \in Presence, fd \in Presence,
            ep \in Presence, ea \in Presence,
            el \in {"absent", "value"},
            win \in BOOLEAN} :
        ks.windows => ~({<<"P", "_API_KEY">>, <<"p", "_api_key">>} \subseteq DOMAIN ks.env)}

KeyInit ==
    /\ pc = "templated"
    /\ template = ValidTemplate(DefaultPath, TRUE, << >>)
    /\ loaded = template
    /\ keySources \in KeySourcesAll
    /\ replacements \in {EmptyMap, W("api_key") :> W("mine")}
    /\ varFlags = << >>
    /\ stdin = [ok |-> TRUE, data |-> << >>]
    /\ rawTemplate = JNull
    /\ err = NoError
    /\ httpResp = NoResponse
    /\ result = NoResult
    /\ apiKey = << >>
    /\ events = << >>
    /\ cmd = PlainCmd
    /\ output = NoOutput
    /\ templateDir = NoDir

KeyNext == DoGetAPIKey

KeySpec == KeyInit /\ [][KeyNext]_vars

----------------------------------------------------------------------------
(* Claims about the API key *)

\* The value a source holds, the empty string when it holds none: a key of
\* the secrets file (nothing when the file is not configured or does not
\* load), an environment variable under the platform's rule for names.
FileSource(k) ==
    IF keySources.file.ok /\ k \in DOMAIN keySources.file.keys
    THEN keySources.file.keys[k] ELSE << >>
SameEnvName(n, m) == IF keySources.windows THEN ToUpper(n) = ToUpper(m) ELSE n = m
EnvSource(n) ==
    IF \E m \in DOMAIN keySources.env : SameEnvName(m, n)
    THEN keySources.env[CHOOSE m \in DOMAIN keySources.env : SameEnvName(m, n)]
    ELSE << >>

\* The sources in their order of priority for provider p.
KeyPriority ==
    <<keySources.cli,
      FileSource(<<"p", "_api_key">>), FileSource(W("api_key")),
      FileSource(W("default_api_key")),
      EnvSource(<<"P", "_API_KEY">>), EnvSource(W("API_KEY"))>>

\* C21: the key is the value of the first source in the order --api-key,
\* file <provider>_api_key, file api_key, file default_api_key, environment
\* <PROVIDER>_API_KEY, environment API_KEY that is not empty, and the empty
\* string exactly when every source is absent or empty.
C21_FirstNonEmptySource ==
    pc = "loaded" =>
        IF \A i \in 1..Len(KeyPriority) : KeyPriority[i] = << >> THEN apiKey = << >>
        ELSE \E i \in 1..Len(KeyPriority) :
                /\ KeyPriority[i] # << >>
                /\ \A j \in 1..(i - 1) : KeyPriority[j] = << >>
                /\ apiKey = KeyPriority[i]

\* An empty provider key in the file was passed over for the file's
\* generic key, with keys waiting in the environment.
C21_Witness ==
    /\ pc = "loaded"
    /\ keySources.cli = << >>
    /\ keySources.file.ok
    /\ <<"p", "_api_key">> \in DOMAIN keySources.file.keys
    /\ keySources.file.keys[<<"p", "_api_key">>] = << >>
    /\ W("API_KEY") \in DOMAIN keySources.env
    /\ keySources.env[W("API_KEY")] = W("env-a")
    /\ apiKey = W("file-a")

----------------------------------------------------------------------------
(* cmd and pkg/templates: where the template comes from *)

NoTemplateSource == [kind |-> "NoTemplateSource"]
ExclusiveTemplateSources == [kind |-> "ExclusiveTemplateSources"]
EmptyTemplateJSON == [kind |-> "EmptyTemplateJSON"]
EmptyTemplateBase64 == [kind |-> "EmptyTemplateBase64"]
Base64DecodeError == [kind |-> "Base64DecodeError"]
DirectPathError(path) == [kind |-> "DirectPathError", path |-> path]
TemplateNotFound(attemptedPaths) == [kind |-> "TemplateNotFound", paths |-> attemptedPaths]

\* A variant that counts the inline sources only.
templateSources_InlineOnly(c) ==
    (IF c.json.changed THEN 1 ELSE 0) + (IF c.base64.changed THEN 1 ELSE 0)

\* runCall: how many template sources the command line gives.
templateSources(c) ==
    (IF c.arg # << >> THEN 1 ELSE 0) + (IF c.json.changed THEN 1 ELSE 0)
        + (IF c.base64.changed THEN 1 ELSE 0)

\* strings.HasSuffix
HasSuffix(s, suffix) ==
    Len(s) >= Len(suffix) /\ SubSeq(s, Len(s) - Len(suffix) + 1, Len(s)) = suffix

\* filepath.IsAbs on a system with '/' as separator.
IsAbs(path) == path # << >> /\ Head(path) = "/"

\* strings.ContainsAny
ContainsAny(s, chars) == \E i \in 1..Len(s) : s[i] \in chars

\* filepath.Clean, as far as the paths of the model need it: a run of
\* separators is one separator.
RECURSIVE Clean(_)
Clean(path) ==
    IF Len(path) < 2 THEN path
    ELSE IF path[1] = "/" /\ path[2] = "/" THEN Clean(Tail(path))
    ELSE <<Head(path)>> \o Clean(Tail(path))

\* filepath.Join of a directory and a name.
JoinPath(dir, name) == Clean(dir \o W("/") \o name)

\* A variant that goes on to the next directory when the file it found
\* does not parse.
LoadTemplate_SkipsBadFile(c, name) ==
    LET templatePath == IF HasSuffix(name, W(".json")) THEN name ELSE name \o W(".json")
        userPath == JoinPath(c.userDir, templatePath)
        defaultPath == JoinPath(c.defaultDir.path, templatePath)
        tryUser == c.userDir # << >>
        tryDefault == c.defaultDir.ok
        attempted == (IF tryUser THEN <<userPath>> ELSE << >>)
                     \o (IF tryDefault THEN <<defaultPath>> ELSE << >>)
    IN IF IsAbs(templatePath) \/ ContainsAny(templatePath, {"/", "\\"})
       THEN IF Clean(templatePath) \in DOMAIN c.files
            THEN [data |-> c.files[Clean(templatePath)], read |-> TRUE,
                  reads |-> <<Clean(templatePath)>>, err |-> NoError]
            ELSE [data |-> JNull, read |-> FALSE, reads |-> <<Clean(templatePath)>>,
                  err |-> DirectPathError(Clean(templatePath))]
       ELSE IF tryUser /\ userPath \in DOMAIN c.files
               /\ parseTemplate(c.files[userPath]).err = NoError
       THEN [data |-> c.files[userPath], read |-> TRUE, reads |-> <<userPath>>,
             err |-> NoError]
       ELSE IF tryDefault /\ defaultPath \in DOMAIN c.files
       THEN [data |-> c.files[defaultPath], read |-> TRUE, reads |-> attempted,
             err |-> NoError]
       ELSE [data |-> JNull, read |-> FALSE, reads |-> attempted,
             err |-> TemplateNotFound(attempted)]

\* LoadTemplate up to the parse: the file it hands to parseTemplate, the
\* paths it tried to read in order, and its own error when no file was read.
LoadTemplate(c, name) ==
    LET templatePath == IF HasSuffix(name, W(".json")) THEN name ELSE name \o W(".json")
        userPath == JoinPath(c.userDir, templatePath)
        defaultPath == JoinPath(c.defaultDir.path, templatePath)
        tryUser == c.userDir # << >>
        tryDefault == c.defaultDir.ok
        attempted == (IF tryUser THEN <<userPath>> ELSE << >>)
                     \o (IF tryDefault THEN <<defaultPath>> ELSE << >>)
    IN IF IsAbs(templatePath) \/ ContainsAny(templatePath, {"/", "\\"})
       THEN IF Clean(templatePath) \in DOMAIN c.files
            THEN [data |-> c.files[Clean(templatePath)], read |-> TRUE,
                  reads |-> <<Clean(templatePath)>>, err |-> NoError]
            ELSE [data |-> JNull, read |-> FALSE, reads |-> <<Clean(templatePath)>>,
                  err |-> DirectPathError(Clean(templatePath))]
       ELSE IF tryUser /\ userPath \in DOMAIN c.files
       THEN [data |-> c.files[userPath], read |-> TRUE, reads |-> <<userPath>>,
             err |-> NoError]
       ELSE IF tryDefault /\ defaultPath \in DOMAIN c.files
       THEN [data |-> c.files[defaultPath], read |-> TRUE, reads |-> attempted,
             err |-> NoError]
       ELSE [data |-> JNull, read |-> FALSE, reads |-> attempted,
             err |-> TemplateNotFound(attempted)]

\* The template source runCall reads, by the branch it takes: the document
\* it hands to the parser, the template files it tried, its error.
ReadSource(c) ==
    IF c.arg # << >> THEN LoadTemplate(c, c.arg)
    ELSE IF c.json.changed
    THEN IF c.json.empty
         THEN [data |-> JNull, read |-> FALSE, reads |-> << >>, err |-> EmptyTemplateJSON]
         ELSE [data |-> c.json.doc, read |-> TRUE, reads |-> << >>, err |-> NoError]
    ELSE IF c.base64.empty
         THEN [data |-> JNull, read |-> FALSE, reads |-> << >>, err |-> EmptyTemplateBase64]
    ELSE IF ~c.base64.valid
         THEN [data |-> JNull, read |-> FALSE, reads |-> << >>, err |-> Base64DecodeError]
    ELSE [data |-> c.base64.doc, read |-> TRUE, reads |-> << >>, err |-> NoError]

\* templates.LoadTemplateFromJSON: inline template text is parsed and
\* validated as the text of a template file is.
LoadTemplateFromJSON(data) == parseTemplate(data)

RECURSIVE TemplateReads(_)
TemplateReads(paths) ==
    IF paths = << >> THEN << >>
    ELSE <<Event("template", Head(paths))>> \o TemplateReads(Tail(paths))

\* runCall: the template sources are counted before anything else is done.
DoSelectSource ==
    /\ pc = "begin"
    /\ IF templateSources(cmd) = 0
       THEN err' = NoTemplateSource /\ pc' = "failed"
       ELSE IF templateSources(cmd) > 1
       THEN err' = ExclusiveTemplateSources /\ pc' = "failed"
       ELSE err' = NoError /\ pc' = "flags"
    /\ UNCHANGED <<rawTemplate, template, loaded, replacements, httpResp, result>>
    /\ UNCHANGED <<varFlags, stdin, keySources, apiKey, events, cmd, output, templateDir>>

\* runCall: the template is read from its one source and parsed.
DoLoadFromSource ==
    /\ pc = "start"
    /\ LET src == ReadSource(cmd)
           r == IF cmd.arg # << >> THEN parseTemplate(src.data)
                ELSE LoadTemplateFromJSON(src.data)
       IN /\ events' = events \o TemplateReads(src.reads)
          /\ IF src.read
             THEN /\ rawTemplate' = src.data
                  /\ template' = r.tmpl
                  /\ loaded' = r.tmpl
                  /\ err' = r.err
                  /\ pc' = IF r.err = NoError THEN "templated" ELSE "failed"
             ELSE /\ err' = src.err
                  /\ pc' = "failed"
                  /\ UNCHANGED <<rawTemplate, template, loaded>>
    /\ UNCHANGED <<replacements, httpResp, result>>
    /\ UNCHANGED <<varFlags, stdin, keySources, apiKey, cmd, output, templateDir>>

CallFailed(e) == [kind |-> "CallFailed", cause |-> e]
WriteOutputError == [kind |-> "WriteOutputError"]

\* runCall after provider.Call: an error ends the command; a result goes
\* to standard output or to the output file.
DoOutput ==
    /\ pc = "called"
    /\ IF result.kind # "value"
       THEN /\ err' = CallFailed(result)
            /\ pc' = "failed"
            /\ UNCHANGED output
       ELSE IF cmd.outputFlag # << >> /\ ~cmd.writable
       THEN /\ err' = WriteOutputError
            /\ pc' = "failed"
            /\ UNCHANGED output
       ELSE /\ output' = [written |-> TRUE, text |-> result.val]
            /\ pc' = "done"
            /\ UNCHANGED err
    /\ UNCHANGED <<rawTemplate, template, loaded, replacements, httpResp, result>>
    /\ UNCHANGED <<varFlags, stdin, keySources, apiKey, events, cmd, templateDir>>

----------------------------------------------------------------------------
(* The call command from its command line to its output *)

UserDir == W("u")
DefaultDir == W("d")

CmdTemplate ==
    JMap(W("provider") :> JStr(W("p"))
         @@ W("request") :> JMap(W("url") :> JStr(W("u"))
                                 @@ W("body") :> JMap(W("m") :> JStr(Token(W("a"))))))

\* The same template with a response section that writes auto_detect.
CmdTemplateAuto(b) ==
    JMap(CmdTemplate.v @@ W("response") :> JMap(W("auto_detect") :> JBool(b)))

\* A template without a URL, which Validate rejects.
CmdInvalidTemplate ==
    JMap(W("provider") :> JStr(W("p"))
         @@ W("request") :> JMap(W("body") :> JMap(EmptyMap)))

CmdFlagPool ==
    {Flag2(W("a"), W("hello")), Flag2(W("a"), W("-")), Flag3(W("a"), W("file"), W("f")),
     Flag3(W("a"), W("zip"), W("x"))}

\* No flag, one flag, and two lists of two: a file before standard input,
\* and standard input twice.
CmdFlagLists ==
    {<< >>} \cup {<<f>> : f \in CmdFlagPool}
    \cup {<<Flag3(W("a"), W("file"), W("f")), Flag2(W("b"), W("-"))>>,
          <<Flag2(W("a"), W("-")), Flag2(W("b"), W("-"))>>}

\* A secrets file that is configured and cannot be loaded, one that loads,
\* and none.
CmdKeySources ==
    {NoKeySources,
     [NoKeySources EXCEPT !.file = [configured |-> TRUE, ok |-> FALSE, keys |-> << >>]],
     [NoKeySources EXCEPT !.file = [configured |-> TRUE, ok |-> TRUE,
                                   keys |-> W("api_key") :> W("file-key")]]}

CmdLines ==
    {[arg |-> arg,
      json |-> [changed |-> js[1], empty |-> js[2], doc |-> js[3]],
      base64 |-> [changed |-> bs[1], empty |-> bs[2], valid |-> bs[3], doc |-> CmdTemplate],
      userDir |-> UserDir,
      defaultDir |-> [ok |-> FALSE, path |-> << >>],
      files |-> fs,
      outputFlag |-> out[1],
      writable |-> out[2]] :
        arg \in {<< >>, W("t")},
        js \in {<<FALSE, TRUE, JNull>>, <<TRUE, TRUE, JNull>>, <<TRUE, FALSE, CmdTemplate>>,
                <<TRUE, FALSE, CmdTemplateAuto(TRUE)>>, <<TRUE, FALSE, CmdTemplateAuto(FALSE)>>,
                <<TRUE, FALSE, CmdInvalidTemplate>>},
        bs \in {<<FALSE, TRUE, TRUE>>, <<TRUE, TRUE, TRUE>>, <<TRUE, FALSE, FALSE>>,
                <<TRUE, FALSE, TRUE>>},
        fs \in {EmptyMap, <<"u", "/", "t", ".json">> :> CmdTemplate},
        out \in {<<(<< >>), TRUE>>, <<W("o"), TRUE>>, <<W("o"), FALSE>>}}

CmdInit ==
    /\ pc = "begin"
    /\ cmd \in CmdLines
    /\ varFlags \in CmdFlagLists
    /\ stdin = [ok |-> TRUE, data |-> <<"from stdin">>]
    /\ keySources \in CmdKeySources
    /\ rawTemplate = JNull
    /\ template = NoTemplate
    /\ loaded = NoTemplate
    /\ err = NoError
    /\ replacements = EmptyMap
    /\ httpResp = NoResponse
    /\ result = NoResult
    /\ apiKey = << >>
    /\ events = << >>
    /\ output = NoOutput
    /\ templateDir = NoDir

CmdNext ==
    \/ DoSelectSource
    \/ DoParseVarFlags
    \/ DoLoadFromSource
    \/ DoGetAPIKey
    \/ DoReplaceVariables
    \/ DoSendRequest
    \/ DoCall
    \/ DoOutput

CmdSpec == CmdInit /\ [][CmdNext]_vars

----------------------------------------------------------------------------
(* Inputs of the template-lookup specification *)

TemplateNames ==
    {W("t"), <<"t", ".json">>, <<"/", "t">>, <<"s", "/", "t">>,
     <<"s", "/", "/", "t", ".json">>, <<"s", "\\", "t">>}

\* The files a lookup of those names can touch, and the working
\* directory's own t.json, which no lookup names.
TemplatePaths ==
    <<<<"u", "/", "t", ".json">>, <<"d", "/", "t", ".json">>, <<"/", "t", ".json">>,
      <<"s", "/", "t", ".json">>, <<"t", ".json">>>>

FileStates == {"absent", "good", "malformed", "invalid"}

\* The content of the file at a path: a template that names its path as
\* its URL, text that is no JSON, or a template without a URL.
FileDoc(path, state) ==
    IF state = "good"
    THEN JMap(W("provider") :> JStr(W("p"))
              @@ W("request") :> JMap(W("url") :> JStr(path) @@ W("body") :> JMap(EmptyMap)))
    ELSE IF state = "malformed" THEN NotJSON
    ELSE JMap(W("provider") :> JStr(W("p"))
              @@ W("request") :> JMap(W("body") :> JMap(EmptyMap)))

FileSystem(states) ==
    LET present == {i \in 1..Len(TemplatePaths) : states[i] # "absent"}
        paths == {TemplatePaths[i] : i \in present}
    IN [q \in paths |->
           FileDoc(q, states[CHOOSE i \in present : TemplatePaths[i] = q])]

FileSystems ==
    {FileSystem(<<us, ds, as, ss, "good">>) :
        us \in FileStates, ds \in FileStates \ {"malformed"},
        as \in {"absent", "good"}, ss \in {"absent", "good", "invalid"}}

LoadInit ==
    /\ pc = "start"
    /\ \E name \in TemplateNames, files \in FileSystems,
          userDir \in {<< >>, UserDir}, defaultOK \in BOOLEAN :
            cmd = [PlainCmd EXCEPT !.arg = name,
                                   !.json = [changed |-> FALSE, empty |-> TRUE, doc |-> JNull],
                                   !.userDir = userDir,
                                   !.defaultDir = [ok |-> defaultOK, path |-> DefaultDir],
                                   !.files = files]
    /\ rawTemplate = JNull
    /\ template = NoTemplate
    /\ loaded = NoTemplate
    /\ err = NoError
    /\ replacements = EmptyMap
    /\ httpResp = NoResponse
    /\ result = NoResult
    /\ varFlags = << >>
    /\ stdin = [ok |-> TRUE, data |-> << >>]
    /\ keySources = NoKeySources
    /\ apiKey = << >>
    /\ events = << >>
    /\ output = NoOutput
    /\ templateDir = NoDir

LoadNext == DoLoadFromSource

LoadSpec == LoadInit /\ [][LoadNext]_vars

----------------------------------------------------------------------------
(* Claims about the template lookup *)

FileName == IF HasSuffix(cmd.arg, W(".json")) THEN cmd.arg ELSE cmd.arg \o W(".json")
IsDirectName == Head(cmd.arg) = "/" \/ \E i \in 1..Len(cmd.arg) : cmd.arg[i] \in {"/", "\\"}
InUserDir == UserDir \o W("/") \o FileName
InDefaultDir == DefaultDir \o W("/") \o FileName
Readable(path) == path \in DOMAIN cmd.files
UserReadable == cmd.userDir # << >> /\ Readable(InUserDir)
ReadsOf(path) == {i \in 1..Len(events) : events[i] = Event("template", path)}
Loaded == pc \in {"templated", "failed"}

\* The outcome of the load is the outcome of parsing the file at path.
ParsedFrom(path) ==
    /\ err = parseTemplate(cmd.files[path]).err
    /\ err = NoError => template.Request.URL = path
    /\ err = NoError <=> pc = "templated"

\* C26: a name that is absolute or contains a separator is read from that
\* path only; any other name is read from the user template directory
\* first and from the default template directory only when the user
\* directory's file cannot be read; the first file found is the one parsed
\* and its parse or validation error is the result, with no further read.
C26_LookupOrder ==
    Loaded =>
        /\ \A i \in 1..Len(events) : events[i].op = "template"
        /\ IsDirectName =>
              /\ Len(events) = 1
              /\ events[1].arg \notin {InUserDir, InDefaultDir}
              /\ Readable(events[1].arg) => ParsedFrom(events[1].arg)
              /\ ~Readable(events[1].arg) => pc = "failed" /\ err.kind = "DirectPathError"
        /\ ~IsDirectName =>
              /\ \A i \in 1..Len(events) : events[i].arg \in {InUserDir, InDefaultDir}
              /\ ReadsOf(InDefaultDir) # {} =>
                    /\ ~UserReadable
                    /\ \A i \in ReadsOf(InUserDir) : \A j \in ReadsOf(InDefaultDir) : i < j
              /\ UserReadable => ParsedFrom(InUserDir) /\ events = <<Event("template", InUserDir)>>
              /\ ~UserReadable /\ cmd.defaultDir.ok /\ Readable(InDefaultDir) =>
                    ParsedFrom(InDefaultDir)
              /\ ~UserReadable /\ ~(cmd.defaultDir.ok /\ Readable(InDefaultDir)) =>
                    pc = "failed" /\ err.kind = "TemplateNotFound"

\* The user directory's file is found and does not parse while the
\* default directory holds a good file of the same name.
C26_Witness ==
    /\ Loaded /\ ~IsDirectName /\ UserReadable
    /\ parseTemplate(cmd.files[InUserDir]).err # NoError
    /\ cmd.defaultDir.ok /\ Readable(InDefaultDir)
    /\ parseTemplate(cmd.files[InDefaultDir]).err = NoError
    /\ pc = "failed"

----------------------------------------------------------------------------
(* Claims about the call command as a whole *)

\* The template sources the command line gives.
GivenSources ==
    {k \in {"file", "json", "base64"} :
        \/ k = "file" /\ cmd.arg # << >>
        \/ k = "json" /\ cmd.json.changed
        \/ k = "base64" /\ cmd.base64.changed}

RejectedAtSelection ==
    pc = "failed" /\ err.kind \in {"NoTemplateSource", "ExclusiveTemplateSources"}

\* Nothing was read, loaded, sent or written.
NothingDone ==
    /\ events = << >>
    /\ stdin = [ok |-> TRUE, data |-> <<"from stdin">>]
    /\ replacements = EmptyMap
    /\ template = NoTemplate
    /\ httpResp = NoResponse
    /\ output = NoOutput

\* C24: the command goes on exactly when one template source is given;
\* with none or several it fails with nothing read from standard input or
\* a file, no variable bound, no template loaded and no request sent.
C24_ExclusiveSources ==
    pc # "begin" =>
        /\ Cardinality(GivenSources) = 1 => ~RejectedAtSelection
        /\ Cardinality(GivenSources) # 1 => RejectedAtSelection /\ NothingDone

\* The file argument and --template-json together, with a variable that
\* would be read from standard input.
C24_Witness ==
    /\ GivenSources = {"file", "json"}
    /\ varFlags = <<Flag2(W("a"), W("-"))>>
    /\ pc = "failed"
    /\ err = ExclusiveTemplateSources

\* No source at all.
C24_WitnessNone ==
    /\ GivenSources = {}
    /\ pc = "failed"
    /\ err = NoTemplateSource

\* The key lookup has run and its load of the configured secrets file
\* returned an error.
LoadApiKeysFailed ==
    /\ pc \in {"loaded", "substituted", "responded", "called", "done"}
    /\ keySources.cli = << >>
    /\ keySources.file.configured
    /\ ~keySources.file.ok

\* The call returned an error that the command is about to report.
CallReturnedError == pc = "called" /\ result.kind # "value"

\* C22: every error ends the invocation: after a failing step no later
\* stage runs and nothing is written to the output; the one failure that
\* is recovered is that of auto-detection, which falls back to the path.
C22_EveryErrorFatal ==
    /\ err # NoError => pc = "failed"
    /\ LoadApiKeysFailed => pc = "failed"
    /\ pc = "failed" \/ CallReturnedError => output = NoOutput
    /\ pc = "failed" => ~ENABLED CmdNext
    /\ output.written => result.kind = "value" /\ httpResp.StatusCode = StatusOK
    /\ pc = "called" /\ httpResp.StatusCode = StatusOK /\ template.Response.AutoDetect
          /\ autoDetectResponseContent(httpResp.Body,
                                       template.Response.ResponseFieldName).kind = "error"
        => result = extractResponseContentByPath(httpResp.Body, template.Response.Path)

\* The same with the failing load of the secrets file left aside: what
\* the command does hold to.
C22_ReturnedErrorsFatal ==
    /\ err # NoError => pc = "failed"
    /\ pc = "failed" \/ CallReturnedError => output = NoOutput
    /\ pc = "failed" => ~ENABLED CmdNext
    /\ output.written => result.kind = "value" /\ httpResp.StatusCode = StatusOK
    /\ pc = "called" /\ httpResp.StatusCode = StatusOK /\ template.Response.AutoDetect
          /\ autoDetectResponseContent(httpResp.Body,
                                       template.Response.ResponseFieldName).kind = "error"
        => result = extractResponseContentByPath(httpResp.Body, template.Response.Path)

\* The place of an I/O operation in the order standard input, files,
\* HTTP call, parse of the response.
Rank(e) ==
    CASE e.op = "stdin" -> 1
      [] e.op \in {"file", "template"} -> 2
      [] e.op = "http" -> 3
      [] e.op \in {"autoDetect", "byPath"} -> 4

Count(ops) == Cardinality({i \in 1..Len(events) : events[i].op \in ops})

FileTyped == {i \in 1..Len(varFlags) : PartsOf(varFlags[i]) = 3 /\ KindOf(varFlags[i]) = W("file")}

\* C23: the I/O operations of an invocation come in the order standard
\* input, files, HTTP call, parse of the response, with at most one read of
\* standard input, one file read per file-typed variable, one HTTP call and
\* one parse of the response body.
C23_IOOrder ==
    /\ \A i, j \in 1..Len(events) : i < j => Rank(events[i]) <= Rank(events[j])
    /\ Count({"stdin"}) <= 1
    /\ Count({"file"}) <= Cardinality(FileTyped)
    /\ Count({"http"}) <= 1
    /\ Count({"autoDetect", "byPath"}) <= 1

\* What holds of the order: the variables are read in the order of the
\* flags, one read for each flag that names standard input or a file, then
\* the template file, then at most one HTTP call, then the response, which
\* is parsed once, or twice when auto-detection falls back to the path.
C23_StageOrder ==
    /\ \A i, j \in 1..Len(events) :
           i < j => (IF Rank(events[i]) = 1 THEN 2 ELSE Rank(events[i]))
                        <= (IF Rank(events[j]) = 1 THEN 2 ELSE Rank(events[j]))
    /\ Count({"stdin", "file"}) <= Len(varFlags)
    /\ Count({"http"}) <= 1
    /\ Count({"autoDetect", "byPath"}) <= 2

\* The template text writes no auto_detect: it has no response section, or
\* one without that key.
OmitsAutoDetect == Member(Member(rawTemplate, W("response")), W("auto_detect")).t = "absent"

ParseEvents == SelectSeq(events, LAMBDA e : e.op \in {"autoDetect", "byPath"})

\* C25: a template that does not write auto_detect is executed with
\* auto-detection attempted before path navigation, as if it had written
\* auto_detect: true.
C25_AutoDetectDefaultsTrue ==
    pc = "called" /\ OmitsAutoDetect /\ httpResp.StatusCode = StatusOK =>
        /\ ParseEvents # << >>
        /\ Head(ParseEvents).op = "autoDetect"
        /\ result = CallResponse([template EXCEPT !.Response.AutoDetect = TRUE], httpResp)

\* What the command does: without auto_detect in the template the call
\* goes straight to path navigation, as if auto_detect: false were written.
C25_AutoDetectDefaultsFalse ==
    pc = "called" /\ OmitsAutoDetect /\ httpResp.StatusCode = StatusOK =>
        /\ ParseEvents = <<Event("byPath", << >>)>>
        /\ result = CallResponse([template EXCEPT !.Response.AutoDetect = FALSE], httpResp)

----------------------------------------------------------------------------
(* pkg/llm: the response structure shown in an extraction error *)

\* The cap of formatResponseStructure, in bytes of the rendering.
StructureCap == 1000

\* "... (truncated)"
TruncationMarker ==
    <<".", ".", ".", " ", "(", "t", "r", "u", "n", "c", "a", "t", "e", "d", ")">>

\* How far past the cap the renderings of the model go.
MaxOver == 20

\* How far below the cap they start.
Under == 60

Bytes(sym, n) == [i \in 1..n |-> sym]

\* json.MarshalIndent(response, "", "  ") of a response object that is
\* empty or holds one string under the key k, one symbol a byte.
MarshalIndent(response) ==
    IF DOMAIN response.v = {} THEN <<"{", "}">>
    ELSE <<"{", "\n", " ", " ", "\"", "k", "\"", ":", " ", "\"">>
         \o response.v[W("k")].v \o <<"\"", "\n", "}">>

\* A variant that also cuts a rendering that is exactly as long as the cap.
formatResponseStructure_CutsAtCap(response) ==
    LET prettyJSON == MarshalIndent(response)
    IN IF Len(prettyJSON) >= StructureCap
       THEN SubSeq(prettyJSON, 1, StructureCap) \o TruncationMarker
       ELSE prettyJSON

\* formatResponseStructure
formatResponseStructure(response) ==
    LET prettyJSON == MarshalIndent(response)
    IN IF Len(prettyJSON) > StructureCap
       THEN SubSeq(prettyJSON, 1, StructureCap) \o TruncationMarker
       ELSE prettyJSON

\* Response objects whose rendering is from Under bytes below the cap to
\* MaxOver bytes above it, and the empty object.
StructureBodies ==
    {JMap(EmptyMap)} \cup
    {JMap(W("k") :> JStr(Bytes("x", n))) :
        n \in (StructureCap - 13 - Under)..(StructureCap - 13 + MaxOver)}

StructureInit ==
    /\ pc = "responded"
    /\ httpResp \in {[StatusCode |-> StatusOK, Body |-> b] : b \in StructureBodies}
    /\ result = NoResult
    /\ rawTemplate = JNull
    /\ template = NoTemplate
    /\ loaded = NoTemplate
    /\ err = NoError
    /\ replacements = EmptyMap
    /\ NoCommandLine

\* extractResponseContentByPath on a path that names a missing field, a
\* field that is no array or an index past the end: the error it returns
\* carries formatResponseStructure(response).
DoFormatStructure ==
    /\ pc = "responded"
    /\ result' = Failure([kind |-> "FieldNotFound",
                          structure |-> formatResponseStructure(httpResp.Body)])
    /\ pc' = "called"
    /\ UNCHANGED <<rawTemplate, template, loaded, err, replacements, httpResp>>
    /\ UNCHANGED <<varFlags, stdin, keySources, apiKey, events, cmd, output, templateDir>>

StructureNext == DoFormatStructure

StructureSpec == StructureInit /\ [][StructureNext]_vars

\* The full rendering of the response, written out from the body.
FullRendering ==
    IF DOMAIN httpResp.Body.v = {} THEN <<"{", "}">>
    ELSE <<"{", "\n", " ", " ", "\"", "k", "\"", ":", " ", "\"">>
         \o httpResp.Body.v[W("k")].v \o <<"\"", "\n", "}">>

EndsWithMarker(s) ==
    Len(s) >= Len(TruncationMarker)
    /\ SubSeq(s, Len(s) - Len(TruncationMarker) + 1, Len(s)) = TruncationMarker

\* C27 as stated: the rendering in the error is at most 1000 bytes long,
\* marker included, and ends with the marker exactly when the full
\* rendering was longer than the cap.
C27_CappedWithMarker ==
    pc = "called" =>
        /\ Len(result.err.structure) <= StructureCap
        /\ EndsWithMarker(result.err.structure) <=> Len(FullRendering) > StructureCap

\* C27 amended: the rendering in the error is the full rendering when that
\* is at most 1000 bytes long, and otherwise its first 1000 bytes followed
\* by the marker, 1015 bytes in all; it ends with the marker exactly when
\* the full rendering was longer than the cap.
C27_CapBeforeMarker ==
    pc = "called" =>
        /\ Len(FullRendering) <= StructureCap => result.err.structure = FullRendering
        /\ Len(FullRendering) > StructureCap =>
              /\ result.err.structure = SubSeq(FullRendering, 1, StructureCap) \o TruncationMarker
              /\ Len(result.err.structure) = StructureCap + Len(TruncationMarker)
        /\ EndsWithMarker(result.err.structure) <=> Len(FullRendering) > StructureCap

\* A rendering one byte over the cap has been cut.
C27_Witness ==
    /\ pc = "called"
    /\ Len(FullRendering) = StructureCap + 1
    /\ EndsWithMarker(result.err.structure)

\* A rendering exactly as long as the cap has been left whole.
C27_WitnessAtCap ==
    /\ pc = "called"
    /\ Len(FullRendering) = StructureCap
    /\ result.err.structure = FullRendering

----------------------------------------------------------------------------
(* Claims about the totality of path navigation *)

\* C28: for a JSON object body and any path string, extraction by path
\* ends with a string or with an error value; it never aborts the process.
C28_NavigationTotal ==
    pc = "extracted" /\ httpResp.Body.t = "map" => result.kind \in {"value", "error"}

\* The paths that abort: a negative index into an array that is not
\* empty, and a ']' before the '['.
C28_AbortsOnlyOnMalformedIndex ==
    pc = "extracted" /\ result = Panic =>
        template.Response.Path \in {<<"arr", "[", "-", "1", "]">>, <<"arr", "]", "0", "[">>}

----------------------------------------------------------------------------
(* pkg/download and cmd: llm-caller template download *)

DefaultDirError == [kind |-> "DefaultDirError"]
CreateDirError == [kind |-> "CreateDirError"]
ParseURLError == [kind |-> "ParseURLError"]
GetError == [kind |-> "GetError"]
StatusError(code) == [kind |-> "StatusError", code |-> code]
CreateFileError == [kind |-> "CreateFileError"]
SaveFileError == [kind |-> "SaveFileError"]
BothDownloadsFailed(githubErr, mirrorErr) ==
    [kind |-> "BothDownloadsFailed", github |-> githubErr, mirror |-> mirrorErr]
InvalidTemplateFile == [kind |-> "InvalidTemplateFile"]

\* The name the download is saved under, and another file of the directory.
DestName == <<"t", ".json">>
OtherName == <<"o", ".json">>

OldContent == <<"{", "old", "}">>
OtherContent == <<"{", "other", "}">>

\* What a site sends: a template, a template with blanks around it, a
\* page that is no JSON, nothing.
DownloadBodies ==
    {<<"{", "new", "}">>, <<" ", "{", "new", "}", "\n">>, <<"<", "html", ">">>, << >>}

\* What can happen to one download: the connection fails; the site
\* answers with a status; the destination cannot be created; the copy of
\* the body breaks off after some bytes; the body is copied whole.
Attempts ==
    {[kind |-> k, status |-> 0, body |-> << >>, copied |-> 0] :
        k \in {"connError", "createError"}}
    \cup {[kind |-> "status", status |-> c, body |-> << >>, copied |-> 0] : c \in {404, 500}}
    \cup {[kind |-> "copyError", status |-> StatusOK, body |-> b, copied |-> n] :
            b \in {<<"{", "new", "}">>}, n \in 0..2}
    \cup {[kind |-> "ok", status |-> StatusOK, body |-> b, copied |-> Len(b)] :
            b \in DownloadBodies}

\* os.Create followed by io.Copy of the first n bytes of the body.
WriteFile(d, name, body, n) ==
    [f \in DOMAIN d \cup {name} |-> IF f = name THEN SubSeq(body, 1, n) ELSE d[f]]

\* downloadFromURL: its error and the directory it leaves.
downloadFromURL(attempt, d, destPath) ==
    CASE attempt.kind = "connError" -> [err |-> GetError, dir |-> d]
      [] attempt.kind = "status" /\ attempt.status # StatusOK ->
            [err |-> StatusError(attempt.status), dir |-> d]
      [] attempt.kind = "createError" -> [err |-> CreateFileError, dir |-> d]
      [] attempt.kind = "copyError" ->
            [err |-> SaveFileError,
             dir |-> WriteFile(d, destPath, attempt.body, attempt.copied)]
      [] OTHER ->
            [err |-> NoError, dir |-> WriteFile(d, destPath, attempt.body, Len(attempt.body))]

IsSpace(sym) == sym \in {" ", "\n", "\t", "\r"}

\* strings.TrimSpace
RECURSIVE TrimSpace(_)
TrimSpace(str) ==
    IF str = << >> THEN str
    ELSE IF IsSpace(Head(str)) THEN TrimSpace(Tail(str))
    ELSE IF IsSpace(str[Len(str)]) THEN TrimSpace(SubSeq(str, 1, Len(str) - 1))
    ELSE str

\* ValidateTemplateFile on the content of the file it read.
ValidateTemplateFile(data) ==
    LET content == TrimSpace(data)
    IN IF Len(data) = 0 THEN InvalidTemplateFile
       ELSE IF content = << >> \/ Head(content) # "{" \/ content[Len(content)] # "}"
       THEN InvalidTemplateFile
       ELSE NoError

\* A variant that leaves the file where it is.
Remove_KeepsFile(d, name) == d

\* os.Remove
Remove(d, name) == [f \in DOMAIN d \ {name} |-> d[f]]

\* The directory before the command: another template, and under the
\* destination name an older download or nothing.
DirsBefore ==
    {OtherName :> OtherContent, OtherName :> OtherContent @@ DestName :> OldContent}

DownloadInit ==
    /\ pc = "download"
    /\ templateDir \in DirsBefore
    /\ \E urlOK \in BOOLEAN, dirOK \in BOOLEAN, before \in DirsBefore :
          /\ before = templateDir
          /\ cmd = [PlainCmd EXCEPT !.arg = IF urlOK THEN W("github-url") ELSE W("not-a-url"),
                                    !.defaultDir = [ok |-> dirOK, path |-> DefaultDir],
                                    !.files = before]
    /\ rawTemplate = JNull
    /\ template = NoTemplate
    /\ loaded = NoTemplate
    /\ err = NoError
    /\ replacements = EmptyMap
    /\ httpResp = NoResponse
    /\ result = NoResult
    /\ varFlags = << >>
    /\ stdin = [ok |-> TRUE, data |-> << >>]
    /\ keySources = NoKeySources
    /\ apiKey = << >>
    /\ events = << >>
    /\ output = NoOutput

\* runTemplateDownload and DownloadTemplate up to the first download: the
\* directory is made sure of and the URL is parsed.
DoPrepareDownload ==
    /\ pc = "download"
    /\ IF ~cmd.defaultDir.ok
       THEN err' = DefaultDirError /\ pc' = "failed"
       ELSE IF cmd.arg # W("github-url")
       THEN err' = ParseURLError /\ pc' = "failed"
       ELSE err' = NoError /\ pc' = "github"
    /\ UNCHANGED <<rawTemplate, template, loaded, replacements, httpResp, result>>
    /\ UNCHANGED <<varFlags, stdin, keySources, apiKey, events, cmd, output, templateDir>>

\* DownloadTemplate: the download from the raw GitHub URL.
DoDownloadFromGitHub ==
    /\ pc = "github"
    /\ \E attempt \in Attempts :
          LET r == downloadFromURL(attempt, templateDir, DestName)
          IN /\ events' = Append(events, Event("github", attempt))
             /\ templateDir' = r.dir
             /\ err' = r.err
             /\ pc' = IF r.err = NoError THEN "validate" ELSE "mirror"
    /\ UNCHANGED <<rawTemplate, template, loaded, replacements, httpResp, result>>
    /\ UNCHANGED <<varFlags, stdin, keySources, apiKey, cmd, output>>

\* DownloadTemplate: the download from the mirror site.
DoDownloadFromMirror ==
    /\ pc = "mirror"
    /\ \E attempt \in Attempts :
          LET r == downloadFromURL(attempt, templateDir, DestName)
          IN /\ events' = Append(events, Event("mirror", attempt))
             /\ templateDir' = r.dir
             /\ err' = IF r.err = NoError THEN NoError ELSE BothDownloadsFailed(err, r.err)
             /\ pc' = IF r.err = NoError THEN "validate" ELSE "failed"
    /\ UNCHANGED <<rawTemplate, template, loaded, replacements, httpResp, result>>
    /\ UNCHANGED <<varFlags, stdin, keySources, apiKey, cmd, output>>

\* runTemplateDownload: the downloaded file is validated, and removed
\* when it is not valid.
DoValidateDownload ==
    /\ pc = "validate"
    /\ LET e == ValidateTemplateFile(templateDir[DestName])
       IN IF e # NoError
          THEN /\ templateDir' = Remove(templateDir, DestName)
               /\ err' = e
               /\ pc' = "failed"
               /\ UNCHANGED output
          ELSE /\ output' = [written |-> TRUE, text |-> DestName]
               /\ pc' = "done"
               /\ UNCHANGED <<err, templateDir>>
    /\ UNCHANGED <<rawTemplate, template, loaded, replacements, httpResp, result>>
    /\ UNCHANGED <<varFlags, stdin, keySources, apiKey, events, cmd>>

DownloadNext ==
    \/ DoPrepareDownload
    \/ DoDownloadFromGitHub
    \/ DoDownloadFromMirror
    \/ DoValidateDownload

DownloadSpec == DownloadInit /\ [][DownloadNext]_vars

----------------------------------------------------------------------------
(* Claims about the template download *)

Succeeded(e) == e.arg.kind = "ok"
DownloadReturnedPath == events # << >> /\ Succeeded(events[Len(events)])
DownloadReturnedError == pc = "failed" /\ err.kind = "BothDownloadsFailed"

\* C29: GitHub is tried first and the mirror only after GitHub has failed;
\* the download returns the destination as soon as one attempt succeeds
\* and an error only when both have failed; a downloaded file that fails
\* validation is removed before the command reports the error.
C29_GitHubThenMirror ==
    /\ Len(events) <= 2
    /\ Len(events) >= 1 => events[1].op = "github"
    /\ Len(events) = 2 => events[2].op = "mirror" /\ ~Succeeded(events[1])
    /\ DownloadReturnedPath =>
          /\ pc \in {"validate", "done", "failed"}
          /\ pc = "failed" => err = InvalidTemplateFile
    /\ DownloadReturnedError <=>
          Len(events) = 2 /\ ~Succeeded(events[1]) /\ ~Succeeded(events[2])
    /\ pc = "failed" /\ events # << >> /\ ~DownloadReturnedError =>
          /\ DownloadReturnedPath
          /\ err = InvalidTemplateFile
          /\ DestName \notin DOMAIN templateDir
    /\ pc = "done" =>
          /\ DownloadReturnedPath
          /\ templateDir[DestName] = events[Len(events)].arg.body

\* GitHub failed, the mirror sent a page that is no template, and the
\* file is gone when the command fails.
C29_Witness ==
    /\ Len(events) = 2
    /\ ~Succeeded(events[1])
    /\ Succeeded(events[2])
    /\ pc = "failed"
    /\ err = InvalidTemplateFile
    /\ DestName \notin DOMAIN templateDir

\* C30: a download that ends in an error leaves the directory as it was
\* before the command.
C30_FailedDownloadKeepsDirectory ==
    pc = "failed" => templateDir = cmd.files

\* What holds: the other files are never touched, and the destination is
\* touched only by an attempt that got as far as copying the body.
C30_TouchedOnlyByCopy ==
    /\ OtherName \in DOMAIN templateDir /\ templateDir[OtherName] = OtherContent
    /\ (\A i \in 1..Len(events) : events[i].arg.kind \notin {"ok", "copyError"})
          => templateDir = cmd.files

====
